---------------------------- MODULE Spec2Model ----------------------------
(***************************************************************************)
(* A model of the pebble toolchain core: AST->HIR desugaring of `while`,   *)
(* HIR->MIR lowering (src/src/hir_lowering/mod.rs) and the MIR interpreter *)
(* (src/src/mir_interpreter/mod.rs, value.rs).                             *)
(*                                                                         *)
(* Ids (BodyId, BlockId, Local) are 0-based as in the source; the arenas   *)
(* are TLA+ sequences, so arena[id] is written arena[id + 1].  An          *)
(* Option<T> is a sequence of length at most one.                          *)
(***************************************************************************)
EXTENDS Integers, Sequences, FiniteSets, TLC

VARIABLES
    hir,      \* the Hir handed to hir_lowering::lower (hir.root, as expression trees)
    mir,      \* the Mir that lower() returned, [panicked |-> TRUE] when it panicked
    phase,    \* "hir" | "mir" | "run" | "done" | "abort" | "panic"
    frames,   \* the interpreter's call stack (one record per active Interpreter::run)
    heap,     \* the Allocation cells: heap[a] is the Value in cell a
    out,      \* the lines written to stdout
    ret,      \* Option<Value>: what run(main) returned
    steps,    \* number of interpreter steps taken (bounded by MaxSteps)
    parser,   \* parse_string on one string literal: its locals and its outcome
    tcx,      \* TyCtxInner.subs, the last call on the TyCtx and what it returned
    eval      \* one evaluation of a range r-value: operator, operands, build, value

vars == <<hir, mir, phase, frames, heap, out, ret, steps, parser, tcx, eval>>

(***************************************************************************)
(* MIR data model (src/src/mir/mod.rs)                                     *)
(***************************************************************************)
PLACEHOLDER == 65535

Some(x) == <<x>>
None == <<>>

Place(local, projections) == [local |-> local, projections |-> projections]
PlaceLocal(local) == Place(local, <<>>)

Deref == [p |-> "Deref"]
Field(i) == [p |-> "Field", i |-> i]
Index(l) == [p |-> "Index", l |-> l]
ConstantIndex(n) == [p |-> "ConstantIndex", n |-> n]

CUnit == [c |-> "Unit"]
CBool(b) == [c |-> "Bool", v |-> b]
CInt(i) == [c |-> "Int", v |-> i]
CStr(s) == [c |-> "Str", v |-> s]
CFunc(b) == [c |-> "Func", body |-> b]
CEmptyArray(cap) == [c |-> "EmptyArray", cap |-> cap]
CUninitStruct(size) == [c |-> "UninitStruct", size |-> size]

OConstant(c) == [o |-> "Constant", c |-> c]
OPlace(p) == [o |-> "Place", place |-> p]
ORef(p) == [o |-> "Ref", place |-> p]
OUNIT == OConstant(CUnit)
OLocal(l) == OPlace(PlaceLocal(l))

Use(operand) == [r |-> "Use", operand |-> operand]
BinaryExpr(lhs, op, rhs) == [r |-> "BinaryExpr", lhs |-> lhs, op |-> op, rhs |-> rhs]
UnaryExpr(op, operand) == [r |-> "UnaryExpr", op |-> op, operand |-> operand]
Call(function, args) == [r |-> "Call", function |-> function, args |-> args]
BuildArray(segments) == [r |-> "BuildArray", segments |-> segments]
StrJoin(segments) == [r |-> "StrJoin", segments |-> segments]
RUNIT == Use(OUNIT)
RLocal(l) == Use(OLocal(l))

Goto(b) == [t |-> "Goto", target |-> b]
Branch(condition, fals, tru) ==
    [t |-> "Branch", condition |-> condition, fals |-> fals, tru |-> tru]
Return(operand) == [t |-> "Return", operand |-> operand]
Abort == [t |-> "Abort"]
Unreachable == [t |-> "Unreachable"]

Assign(place, rvalue) == [place |-> place, rvalue |-> rvalue]
Block(statements, terminator) == [statements |-> statements, terminator |-> terminator]

\* Body::new(name, num_params): no blocks, locals pre-seeded with the parameters.
BodyNew(name, params) ==
    [blocks |-> <<>>, locals |-> params, params |-> params, name |-> name, auto |-> FALSE]

\* Terminator::complete: fill the PLACEHOLDER slot of a pending terminator.
complete(term, block) ==
    CASE term.t = "Goto" ->
           IF term.target = PLACEHOLDER THEN Goto(block) ELSE term
      [] term.t = "Branch" ->
           Branch(term.condition,
                  IF term.fals = PLACEHOLDER THEN block ELSE term.fals,
                  IF term.tru = PLACEHOLDER THEN block ELSE term.tru)
      [] OTHER -> term

(***************************************************************************)
(* Types (src/src/ty/mod.rs, TyKind) and HIR (src/src/hir/mod.rs)          *)
(***************************************************************************)
TUnit == [k |-> "Unit"]
TBool == [k |-> "Bool"]
TInt == [k |-> "Int"]
TStr == [k |-> "Str"]
TNever == [k |-> "Never"]
TRange == [k |-> "Range"]
TChar == [k |-> "Char"]
TRef(of) == [k |-> "Ref", of |-> of]
TArray(of) == [k |-> "Array", of |-> of]
TStruct(id, fields) == [k |-> "Struct", id |-> id, fields |-> fields]
TFn == [k |-> "Function"]

is_unit(ty) == ty.k = "Unit"
is_str(ty) == ty.k = "Str"
is_range(ty) == ty.k = "Range"

\* hir::Expr { ty, kind }: each constructor is one ExprKind variant.
HLit(ty, lit) == [kind |-> "Literal", ty |-> ty, lit |-> lit]
HUnit == HLit(TUnit, [l |-> "Unit"])
HBool(b) == HLit(TBool, [l |-> "Bool", v |-> b])
HInt(i) == HLit(TInt, [l |-> "Int", v |-> i])
HString(s) == HLit(TStr, [l |-> "String", v |-> s])
HFStr(segments) == HLit(TStr, [l |-> "FStr", segments |-> segments])
HArray(ty, segments) == HLit(ty, [l |-> "Array", segments |-> segments])
ArraySeg(expr, repeated) == [expr |-> expr, repeated |-> repeated]
HIdent(ty, ident) == [kind |-> "Ident", ty |-> ty, ident |-> ident]
HUnary(ty, op, expr) == [kind |-> "Unary", ty |-> ty, op |-> op, expr |-> expr]
HBinary(ty, lhs, op, rhs) == [kind |-> "Binary", ty |-> ty, lhs |-> lhs, op |-> op, rhs |-> rhs]
HBlock(ty, exprs) == [kind |-> "Block", ty |-> ty, exprs |-> exprs]
HLoop(block) == [kind |-> "Loop", ty |-> TUnit, block |-> block]
HIf(ty, arms, els) == [kind |-> "If", ty |-> ty, arms |-> arms, els |-> els]
HArm(condition, body) == [condition |-> condition, body |-> body]
HBreak == [kind |-> "Break", ty |-> TUnit]
HReturn(expr) == [kind |-> "Return", ty |-> TNever, expr |-> expr]
HAbort == [kind |-> "Abort", ty |-> TNever]
HLet(ident, expr) == [kind |-> "Let", ty |-> TUnit, ident |-> ident, expr |-> expr]
HAssignment(lhs, expr) == [kind |-> "Assignment", ty |-> TUnit, lhs |-> lhs, expr |-> expr]
HFnDecl(ident, params, body) ==
    [kind |-> "FnDecl", ty |-> TUnit, ident |-> ident, params |-> params, body |-> body]
HFnCall(ty, function, args) == [kind |-> "FnCall", ty |-> ty, function |-> function, args |-> args]
HIndex(ty, expr, index) == [kind |-> "Index", ty |-> ty, expr |-> expr, index |-> index]
HField(ty, expr, field) == [kind |-> "Field", ty |-> ty, expr |-> expr, field |-> field]
HStructInit(ty) == [kind |-> "StructInit", ty |-> ty]
HPrintStr(str) == [kind |-> "PrintStr", ty |-> TUnit, str |-> str]

(***************************************************************************)
(* HIR->MIR lowering state (struct Lowering, struct BodyInfo, struct Scope) *)
(*   s.mir.bodies   the body arena          s.mir.main_body  Option<BodyId> *)
(*   s.bodies       the stack of BodyInfo frames                            *)
(*   s.struct_display_bodies   StructId -> Option<BodyId>                   *)
(*   s.panicked     a panic (assert!, unwrap, unreachable!) was raised      *)
(* A lowering function returns R(s, v): the state after it and its value.   *)
(***************************************************************************)
R(s, v) == [s |-> s, v |-> v]

Put(map, key, val) == [x \in DOMAIN map \cup {key} |-> IF x = key THEN val ELSE map[x]]
EmptyMap == [x \in {} |-> 0]

Scope == [variables |-> EmptyMap]

BodyInfoNew(body) ==
    [body |-> body, functions |-> EmptyMap, stmts |-> <<>>, breaks |-> <<>>,
     scopes |-> <<Scope>>]

Panic(s) == [s EXCEPT !.panicked = TRUE]

\* With([x \in {e} |-> body]) is body with x bound to the value of e: one `let x = e;`
With(f) == f[CHOOSE x \in DOMAIN f : TRUE]

current(s) == s.bodies[Len(s.bodies)]
body_ref(s) == s.mir.bodies[current(s).body + 1]
current_mut(s, info) == [s EXCEPT !.bodies[Len(s.bodies)] = info]
body_mut(s, body) == [s EXCEPT !.mir.bodies[current(s).body + 1] = body]

current_block(s) == Len(body_ref(s).blocks)

finish_with(s, terminator) ==
    With([s1 \in {current_mut(s, [current(s) EXCEPT !.stmts = <<>>])} |->
      R(body_mut(s1, [body_ref(s1) EXCEPT
                        !.blocks = Append(@, Block(current(s).stmts, terminator))]),
        Len(body_ref(s1).blocks))])

finish_next(s) == finish_with(s, Goto(current_block(s) + 1)).s

\* Body::new_local through Lowering::new_local
new_local(s) ==
    R(body_mut(s, [body_ref(s) EXCEPT !.locals = @ + 1]), body_ref(s).locals)

assign(s, place, rvalue) ==
    current_mut(s, [current(s) EXCEPT !.stmts = Append(@, Assign(place, rvalue))])

assign_new(s, rvalue) ==
    With([n \in {new_local(s)} |-> R(assign(n.s, PlaceLocal(n.v), rvalue), n.v)])

process_to_local(s, rvalue) ==
    IF rvalue.r = "Use" /\ rvalue.operand.o = "Place"
       /\ rvalue.operand.place.projections = <<>>
    THEN R(s, rvalue.operand.place.local)
    ELSE assign_new(s, rvalue)

process_to_place(s, rvalue) ==
    IF rvalue.r = "Use" /\ rvalue.operand.o = "Place"
    THEN R(s, rvalue.operand.place)
    ELSE With([a \in {assign_new(s, rvalue)} |-> R(a.s, PlaceLocal(a.v))])

ref_of(s, rvalue) ==
    IF rvalue.r = "Use" /\ rvalue.operand.o = "Place"
    THEN R(s, ORef(rvalue.operand.place))
    ELSE With([a \in {assign_new(s, rvalue)} |-> R(a.s, ORef(PlaceLocal(a.v)))])

process(s, rvalue, ty) ==
    IF rvalue.r = "Use" THEN R(s, rvalue.operand)
    ELSE IF is_unit(ty) THEN R(assign_new(s, rvalue).s, OUNIT)
    ELSE With([a \in {assign_new(s, rvalue)} |-> R(a.s, OLocal(a.v))])

\* deref_operand that dereferences an Operand::Ref through a fresh local
deref_operand_through_local(s, rvalue) ==
    IF rvalue.r = "Use" /\ rvalue.operand.o = "Place"
    THEN R(s, OPlace(Place(rvalue.operand.place.local,
                           Append(rvalue.operand.place.projections, Deref))))
    ELSE With([a \in {assign_new(s, rvalue)} |-> R(a.s, OPlace(Place(a.v, <<Deref>>)))])

deref_operand(s, rvalue) ==
    IF rvalue.r = "Use" /\ rvalue.operand.o = "Place"
    THEN R(s, OPlace(Place(rvalue.operand.place.local,
                           Append(rvalue.operand.place.projections, Deref))))
    ELSE IF rvalue.r = "Use" /\ rvalue.operand.o = "Ref"
    THEN R(s, OPlace(rvalue.operand.place))
    ELSE With([a \in {assign_new(s, rvalue)} |-> R(a.s, OPlace(Place(a.v, <<Deref>>)))])

RECURSIVE fully_deref(_, _, _)
fully_deref(s, rvalue, ty) ==
    IF ty.k = "Ref"
    THEN With([d \in {deref_operand(s, rvalue)} |-> fully_deref(d.s, Use(d.v), ty.of)])
    ELSE R(s, [rvalue |-> rvalue, ty |-> ty])

\* the first binding of ident searching the scope stack from the innermost scope
RECURSIVE find_variable(_, _, _)
find_variable(scopes, i, ident) ==
    IF i = 0 THEN None
    ELSE IF ident \in DOMAIN scopes[i].variables THEN Some(scopes[i].variables[ident])
    ELSE find_variable(scopes, i - 1, ident)

\* the first function named ident searching the body frames from the innermost
RECURSIVE find_function(_, _, _)
find_function(bodies, i, ident) ==
    IF i = 0 THEN None
    ELSE IF ident \in DOMAIN bodies[i].functions THEN Some(bodies[i].functions[ident])
    ELSE find_function(bodies, i - 1, ident)

read_ident(s, ident) ==
    With([found \in {find_variable(current(s).scopes, Len(current(s).scopes), ident)} |->
      IF found = None THEN R(Panic(s), 0) ELSE R(s, found[1])])

\* load_ident that takes the variable from the scope the hasher puts first
load_ident_in_hash_order(s, ident) ==
    LET scopes == current(s).scopes
        hits == {i \in 1..Len(scopes) : ident \in DOMAIN scopes[i].variables}
        pick == CHOOSE i \in hits :
                  \A j \in hits : IF s.hasher = 1 THEN j <= i ELSE i <= j
    IN  IF hits # {} THEN R(s, RLocal(scopes[pick].variables[ident]))
        ELSE
    With([location \in {find_function(s.bodies, Len(s.bodies), ident)} |->
      IF location = None THEN R(Panic(s), RUNIT)
      ELSE R(s, Use(OConstant(CFunc(location[1]))))])

\* a lookup that goes on to the scopes of the enclosing bodies, innermost
\* first, when the current body binds no such variable
RECURSIVE find_enclosing_variable(_, _, _)
find_enclosing_variable(bodies, i, ident) ==
    IF i = 0 THEN None
    ELSE With([place \in {find_variable(bodies[i].scopes, Len(bodies[i].scopes), ident)} |->
           IF place # None THEN place
           ELSE find_enclosing_variable(bodies, i - 1, ident)])

load_ident_closing_over(s, ident) ==
    With([place \in {find_enclosing_variable(s.bodies, Len(s.bodies), ident)} |->
      IF place # None THEN R(s, RLocal(place[1]))
      ELSE
    With([location \in {find_function(s.bodies, Len(s.bodies), ident)} |->
      IF location = None THEN R(Panic(s), RUNIT)
      ELSE R(s, Use(OConstant(CFunc(location[1]))))])])

load_ident(s, ident) ==
    With([place \in {find_variable(current(s).scopes, Len(current(s).scopes), ident)} |->
      IF place # None THEN R(s, RLocal(place[1]))
      ELSE
    With([location \in {find_function(s.bodies, Len(s.bodies), ident)} |->
      IF location = None THEN R(Panic(s), RUNIT)
      ELSE R(s, Use(OConstant(CFunc(location[1]))))])])

scope_insert(s, ident, local) ==
    current_mut(s, [current(s) EXCEPT
                      !.scopes[Len(current(s).scopes)].variables = Put(@, ident, local)])

(***************************************************************************)
(* Intrinsics (mod intrinsics of hir_lowering): functions declared with an *)
(* empty body whose calls lower to an r-value on the argument operands.    *)
(***************************************************************************)
IntrinsicNames == {"print", "print_int", "print_bool", "str_find", "str_rfind", "chr"}

try_instrinsic(ident) == ident \in IntrinsicNames

try_call_intrinsic(s, function, args) ==
    LET isFn == function.o = "Constant" /\ function.c.c = "Func"
        name == IF isFn THEN s.mir.bodies[function.c.body + 1].name ELSE None
        auto == isFn /\ s.mir.bodies[function.c.body + 1].auto
    IN  IF auto /\ name = Some("print") /\ Len(args) = 1
        THEN R(s, UnaryExpr("Println", args[1]))
        ELSE IF auto /\ name = Some("print_int") /\ Len(args) = 1
        THEN With([a \in {assign_new(s, UnaryExpr("IntToStr", args[1]))} |->
               R(a.s, UnaryExpr("Println", OLocal(a.v)))])
        ELSE IF auto /\ name = Some("print_bool") /\ Len(args) = 1
        THEN With([a \in {assign_new(s, UnaryExpr("BoolToStr", args[1]))} |->
               R(a.s, UnaryExpr("Println", OLocal(a.v)))])
        ELSE IF auto /\ name = Some("str_find") /\ Len(args) = 2
        THEN R(s, BinaryExpr(args[1], "StrFind", args[2]))
        ELSE IF auto /\ name = Some("str_rfind") /\ Len(args) = 2
        THEN R(s, BinaryExpr(args[1], "StrRFind", args[2]))
        ELSE IF auto /\ name = Some("chr") /\ Len(args) = 1
        THEN R(s, UnaryExpr("Chr", args[1]))
        ELSE R(s, Call(function, args))

(***************************************************************************)
(* Expression lowering (impl Lowering)                                     *)
(***************************************************************************)
\* blocks[block].terminator.complete(target) on the current body
complete_block(s, block, target) ==
    body_mut(s, [body_ref(s) EXCEPT
                   !.blocks[block + 1].terminator = complete(@, target)])

RECURSIVE complete_all(_, _, _, _)
complete_all(s, blocks, i, target) ==
    IF i > Len(blocks) THEN s
    ELSE complete_all(complete_block(s, blocks[i], target), blocks, i + 1, target)

\* the opcode selected by binary_op from the (dereferenced) left type and the operator
IntOps ==
    [Add |-> "IntAdd", Sub |-> "IntSub", Mul |-> "IntMul", Div |-> "IntDiv",
     Mod |-> "IntMod", Less |-> "IntLess", Greater |-> "IntGreater",
     LessEq |-> "IntLessEq", GreaterEq |-> "IntGreaterEq", Eq |-> "IntEq",
     Neq |-> "IntNeq", Range |-> "IntRange", RangeInclusive |-> "IntRangeInclusive"]
CharOps == [Eq |-> "CharEq", Neq |-> "CharNeq"]
StrOps == [Eq |-> "StrEq", Neq |-> "StrNeq", Add |-> "StrAdd"]

select_op(lhs_ty, op) ==
    CASE lhs_ty.k = "Int" /\ op \in DOMAIN IntOps -> Some(IntOps[op])
      [] lhs_ty.k = "Char" /\ op \in DOMAIN CharOps -> Some(CharOps[op])
      [] lhs_ty.k = "Str" /\ op \in DOMAIN StrOps -> Some(StrOps[op])
      [] OTHER -> None

RECURSIVE lower_rvalue(_, _), lower(_, _), lower_local(_, _), lower_each(_, _, _, _),
          lower_args(_, _, _, _), block_expr(_, _), block_each(_, _, _, _),
          if_arms(_, _, _, _, _, _), binary_op(_, _, _, _), logical_op(_, _, _, _),
          index_array(_, _, _), array_index_derefs(_, _, _),
          lower_place(_, _), lower_place_inner(_, _, _), ref_expr(_, _),
          lit_rvalue(_, _), lower_array_lit(_, _, _, _), lower_fstrings(_, _),
          fstring_segments(_, _, _, _), format_expr(_, _), format_rvalue(_, _, _),
          format_struct(_, _, _, _), generate_struct_func(_, _, _),
          struct_fields(_, _, _, _), fn_decl(_, _), loop_expr(_, _), if_expr(_, _),
          struct_init(_, _, _, _), let_expr(_, _), let_expr_binding_first(_, _),
          fn_decl_returning_unit(_, _)

lower(s, e) ==
    With([rv \in {lower_rvalue(s, e)} |-> process(rv.s, rv.v, e.ty)])

lower_local(s, e) ==
    With([rv \in {lower_rvalue(s, e)} |-> process_to_local(rv.s, rv.v)])

\* for &expr in exprs { last = self.lower(expr) }
lower_each(s, exprs, i, last) ==
    IF i > Len(exprs) THEN R(s, last)
    ELSE With([l \in {lower(s, exprs[i])} |->
           IF l.s.panicked THEN l ELSE lower_each(l.s, exprs, i + 1, l.v)])

\* args.iter().map(|arg| self.lower(*arg)).collect()
lower_args(s, args, i, acc) ==
    IF i > Len(args) THEN R(s, acc)
    ELSE With([l \in {lower(s, args[i])} |->
           IF l.s.panicked THEN R(l.s, acc)
           ELSE lower_args(l.s, args, i + 1, Append(acc, l.v))])

block_each(s, exprs, i, rvalue) ==
    IF i > Len(exprs) THEN R(s, rvalue)
    ELSE IF i = Len(exprs)
    THEN With([rv \in {lower_rvalue(s, exprs[i])} |-> R(rv.s, Some(rv.v))])
    ELSE With([l \in {lower(s, exprs[i])} |->
           IF l.s.panicked THEN R(l.s, rvalue) ELSE block_each(l.s, exprs, i + 1, rvalue)])

\* the identifier bound to its local before the initializer is lowered
let_expr_binding_first(s, e) ==
    With([local \in {new_local(s)} |->
    With([rvalue \in {lower_rvalue(scope_insert(local.s, e.ident, local.v), e.expr)} |->
      R(assign(rvalue.s, PlaceLocal(local.v), rvalue.v), RUNIT)])])

\* ExprKind::Let: the initializer is lowered, its value assigned to a new
\* local, and only then the identifier bound in the innermost scope
let_expr(s, e) ==
    With([rvalue \in {lower_rvalue(s, e.expr)} |->
    With([local \in {assign_new(rvalue.s, rvalue.v)} |->
      R(scope_insert(local.s, e.ident, local.v), RUNIT)])])

block_expr(s, exprs) ==
    With([b \in {block_each(current_mut(s, [current(s) EXCEPT !.scopes = Append(@, Scope)]),
                            exprs, 1, None)} |->
      R(current_mut(b.s, [current(b.s) EXCEPT !.scopes = SubSeq(@, 1, Len(@) - 1)]),
        IF b.v = None THEN RUNIT ELSE b.v[1])])

\* the fields initialized from the parameters in reverse order
RECURSIVE struct_init_reversed(_, _, _, _)
struct_init_reversed(s, local, param, nparams) ==
    IF param >= nparams THEN s
    ELSE struct_init_reversed(assign(s, Place(local, <<Field(param)>>),
                                     RLocal(nparams - 1 - param)),
                              local, param + 1, nparams)

struct_init(s, local, param, nparams) ==
    IF param >= nparams THEN s
    ELSE struct_init(assign(s, Place(local, <<Field(param)>>), RLocal(param)),
                     local, param + 1, nparams)

\* main_body set by a function named main at any depth
set_main_body_at_any_depth(s, ident, body_id) ==
    IF ident = "main" THEN [s EXCEPT !.mir.main_body = Some(body_id)] ELSE s

\* if self.bodies.len() == 2 && ident == "main" { self.mir.main_body = Some(body_id) }
set_main_body(s, ident, body_id) ==
    IF Len(s.bodies) = 2 /\ ident = "main"
    THEN [s EXCEPT !.mir.main_body = Some(body_id)]
    ELSE s

\* fn_decl that ends every body in Return(Unit)
fn_decl_returning_unit(s, e) ==
    With([s1 \in {[s EXCEPT !.mir.bodies = Append(@, BodyNew(Some(e.ident), Len(e.params)))]} |->
    With([s2 \in {current_mut(s1, [current(s1) EXCEPT
                                     !.functions = Put(@, e.ident, Len(s.mir.bodies))])} |->
    With([s3 \in {[s2 EXCEPT !.bodies = Append(@, BodyInfoNew(Len(s.mir.bodies)))]} |->
    With([s4 \in {set_main_body(s3, e.ident, Len(s.mir.bodies))} |->
    With([s5 \in {IF Len(s4.bodies) = 2 /\ try_instrinsic(e.ident)
                  THEN [s4 EXCEPT !.mir.bodies[current(s4).body + 1].auto = TRUE]
                  ELSE With([last \in {lower_each(
                                  current_mut(s4, [current(s4) EXCEPT
                                      !.scopes[Len(current(s4).scopes)].variables =
                                          [x \in {e.params[i].ident : i \in 1..Len(e.params)} |->
                                             (CHOOSE i \in 1..Len(e.params) :
                                                e.params[i].ident = x) - 1]]),
                                  e.body, 1, OUNIT)} |->
                         finish_with(last.s, Return(OUNIT)).s])} |->
      R([s5 EXCEPT !.bodies = SubSeq(@, 1, Len(@) - 1)], RUNIT)])])])])])

fn_decl(s, e) ==
    LET body_id == Len(s.mir.bodies)
        \* scope().variables.insert(param.ident, Local::from(i)) for each parameter in order
        params == [x \in {e.params[i].ident : i \in 1..Len(e.params)} |->
                     (CHOOSE i \in 1..Len(e.params) :
                        /\ e.params[i].ident = x
                        /\ \A j \in (i + 1)..Len(e.params) : e.params[j].ident # x) - 1]
    IN
    With([s0 \in {IF current(s).stmts = <<>> THEN s ELSE Panic(s)} |->
    With([s1 \in {[s0 EXCEPT !.mir.bodies = Append(@, BodyNew(Some(e.ident), Len(e.params)))]} |->
    With([s2 \in {current_mut(s1, [current(s1) EXCEPT !.functions = Put(@, e.ident, body_id)])} |->
    With([s3 \in {[s2 EXCEPT !.bodies = Append(@, BodyInfoNew(body_id))]} |->
    With([s4 \in {set_main_body(s3, e.ident, body_id)} |->
    With([s5 \in {IF Len(s4.bodies) = 2 /\ try_instrinsic(e.ident)
                  THEN [s4 EXCEPT !.mir.bodies[current(s4).body + 1].auto = TRUE]
                  ELSE With([last \in {lower_each(
                                  current_mut(s4, [current(s4) EXCEPT
                                      !.scopes[Len(current(s4).scopes)].variables = params]),
                                  e.body, 1, OUNIT)} |->
                         finish_with(last.s, Return(last.v)).s])} |->
      R([s5 EXCEPT !.bodies = SubSeq(@, 1, Len(@) - 1)], RUNIT)])])])])])])

\* fault variant of loop_expr: the recorded breaks are left unpatched
loop_expr_unpatched(s, e) ==
    With([s1 \in {finish_next(s)} |->
    With([s3 \in {lower_each(current_mut(s1, [current(s1) EXCEPT !.breaks = <<>>]),
                             e.block, 1, OUNIT).s} |->
    With([f \in {finish_with(current_mut(s3, [current(s3) EXCEPT
                                                !.breaks = current(s1).breaks]),
                             Goto(current_block(s1)))} |->
      R(f.s, RUNIT)])])])

\* loop_expr without mem::take and mem::replace: one list of breaks for all loops
loop_expr_shared_breaks(s, e) ==
    With([s1 \in {finish_next(s)} |->
    With([s3 \in {lower_each(s1, e.block, 1, OUNIT).s} |->
    With([f \in {finish_with(current_mut(s3, [current(s3) EXCEPT !.breaks = <<>>]),
                             Goto(current_block(s1)))} |->
      R(complete_all(f.s, current(s3).breaks, 1, f.v + 1), RUNIT)])])])

loop_expr(s, e) ==
    With([s1 \in {finish_next(s)} |->
      LET loop_block == current_block(s1)
          prev_loop == current(s1).breaks
      IN
    With([s3 \in {lower_each(current_mut(s1, [current(s1) EXCEPT !.breaks = <<>>]),
                             e.block, 1, OUNIT).s} |->
      LET breaks == current(s3).breaks
      IN
    With([f \in {finish_with(current_mut(s3, [current(s3) EXCEPT !.breaks = prev_loop]),
                             Goto(loop_block))} |->
      LET after_loop == f.v + 1
      IN  R(complete_all(f.s, breaks, 1, after_loop), RUNIT)])])])

\* one iteration of `for arm in arms` per call; the value is jump_to_ends
if_arms(s, e, i, out_local, is_unit_, jump_to_ends) ==
    IF i > Len(e.arms) THEN R(s, jump_to_ends)
    ELSE
    With([condition \in {lower(s, e.arms[i].condition)} |->
    With([to_fix \in {finish_with(condition.s,
                                  Branch(condition.v, PLACEHOLDER,
                                         current_block(condition.s) + 1))} |->
    With([block_out \in {block_expr(to_fix.s, e.arms[i].body)} |->
    With([j \in {finish_with(IF is_unit_ THEN process(block_out.s, block_out.v, e.ty).s
                             ELSE assign(block_out.s, PlaceLocal(out_local), block_out.v),
                             Goto(PLACEHOLDER))} |->
      if_arms(complete_block(j.s, to_fix.v, current_block(j.s)),
              e, i + 1, out_local, is_unit_, Append(jump_to_ends, j.v))])])])])

\* if_expr with an else block that is lowered for its effects only
if_expr_else_unassigned(s, e) ==
    LET is_unit_ == is_unit(e.ty)
    IN
    With([out_local \in {new_local(s)} |->
    With([arms \in {if_arms(out_local.s, e, 1, out_local.v, is_unit_, <<>>)} |->
    With([els_out \in {block_expr(arms.s, e.els)} |->
    With([s2 \in {finish_next(process(els_out.s, els_out.v, e.ty).s)} |->
      R(complete_all(s2, arms.v, 1, current_block(s2)),
        IF is_unit_ THEN Use(OConstant(CUnit)) ELSE RLocal(out_local.v))])])])])

if_expr(s, e) ==
    LET is_unit_ == is_unit(e.ty)
    IN
    With([out_local \in {new_local(s)} |->
    With([arms \in {if_arms(out_local.s, e, 1, out_local.v, is_unit_, <<>>)} |->
    With([els_out \in {block_expr(arms.s, e.els)} |->
    With([s2 \in {finish_next(IF is_unit_ THEN process(els_out.s, els_out.v, e.ty).s
                              ELSE assign(els_out.s, PlaceLocal(out_local.v), els_out.v))} |->
      R(complete_all(s2, arms.v, 1, current_block(s2)),
        IF is_unit_ THEN Use(OConstant(CUnit)) ELSE RLocal(out_local.v))])])])])

binary_op(s, lhs_e, op, rhs_e) ==
    IF op \in {"And", "Or"} THEN logical_op(s, op, lhs_e, rhs_e)
    ELSE
    With([lhs \in {lower_rvalue(s, lhs_e)} |->
    With([rhs \in {lower_rvalue(lhs.s, rhs_e)} |->
    With([dl \in {fully_deref(rhs.s, lhs.v, lhs_e.ty)} |->
    With([dr \in {fully_deref(dl.s, rhs.v, rhs_e.ty)} |->
      LET mop == select_op(dl.v.ty, op)
      IN  \* no opcode for the operand type: unreachable!()
          IF mop = None THEN R(Panic(dr.s), RUNIT)
          ELSE
    With([pl \in {process(dr.s, dl.v.rvalue, dl.v.ty)} |->
    With([pr \in {process(pl.s, dr.v.rvalue, dr.v.ty)} |->
      R(pr.s, BinaryExpr(pl.v, mop[1], pr.v))])])])])])])

\* the branch of `and` taken for `or` and the other way round
logical_branch_swapped(op, condition, next) ==
    IF op = "Or" THEN Branch(condition, PLACEHOLDER, next)
    ELSE Branch(condition, next, PLACEHOLDER)

\* And: the false edge awaits the join, the true edge enters the right-hand
\* side; Or: the other way round
logical_branch(op, condition, next) ==
    IF op = "And" THEN Branch(condition, PLACEHOLDER, next)
    ELSE Branch(condition, next, PLACEHOLDER)

logical_op(s, op, lhs_e, rhs_e) ==
    With([output \in {new_local(s)} |->
    With([lhs \in {lower_rvalue(output.s, lhs_e)} |->
    With([dl \in {fully_deref(lhs.s, lhs.v, lhs_e.ty)} |->
    With([s1 \in {assign(dl.s, PlaceLocal(output.v), dl.v.rvalue)} |->
    With([to_fix \in {finish_with(s1, logical_branch(op, OLocal(output.v),
                                                     current_block(s1) + 1))} |->
    With([rhs \in {lower_rvalue(to_fix.s, rhs_e)} |->
    With([dr \in {fully_deref(rhs.s, rhs.v, rhs_e.ty)} |->
    With([s2 \in {finish_next(assign(dr.s, PlaceLocal(output.v), dr.v.rvalue))} |->
      R(complete_block(s2, to_fix.v, current_block(s2)), RLocal(output.v))
    ])])])])])])])])

array_index_derefs(s, rvalue, ty) ==
    CASE ty.k = "Array" -> R(s, rvalue)
      [] ty.k = "Ref" ->
           With([d \in {deref_operand(s, rvalue)} |->
             array_index_derefs(d.s, Use(d.v), ty.of)])
      [] OTHER -> R(Panic(s), rvalue)

\* u32::try_from(int).is_ok(); every integer of the model is below u32::MAX
fits_u32(int) == int >= 0

index_array(s, expr, index) ==
    With([e \in {lower_rvalue(s, expr)} |->
    With([d \in {array_index_derefs(e.s, e.v, expr.ty)} |->
    With([place \in {process_to_place(d.s, d.v)} |->
    With([projection \in
            {IF index.kind = "Literal" /\ index.lit.l = "Int" /\ fits_u32(index.lit.v)
             THEN R(place.s, ConstantIndex(index.lit.v))
             ELSE With([l \in {lower_local(place.s, index)} |-> R(l.s, Index(l.v))])} |->
      R(projection.s,
        Use(OPlace(Place(place.v.local, Append(place.v.projections, projection.v)))))
    ])])])])

\* lower_place with the projections in the order outermost first
lower_place_outermost_first(s, expr) ==
    With([l \in {lower_place_inner(s, expr, <<>>)} |->
      R(l.s, Place(l.v.local, [i \in 1..Len(l.v.proj) |-> l.v.proj[Len(l.v.proj) + 1 - i]]))])

lower_place(s, expr) ==
    With([l \in {lower_place_inner(s, expr, <<>>)} |-> R(l.s, Place(l.v.local, l.v.proj))])

\* the value is the base local together with the projections pushed so far
lower_place_inner(s, expr, proj) ==
    CASE expr.kind = "Ident" ->
           With([l \in {read_ident(s, expr.ident)} |-> R(l.s, [local |-> l.v, proj |-> proj])])
      [] expr.kind = "Index" ->
           With([index_local \in {lower_local(s, expr.index)} |->
           With([l \in {lower_place_inner(index_local.s, expr.expr, proj)} |->
             R(l.s, [local |-> l.v.local, proj |-> Append(l.v.proj, Index(index_local.v))])
           ])])
      [] expr.kind = "Unary" /\ expr.op = "Deref" ->
           With([l \in {lower_place_inner(s, expr.expr, proj)} |->
             R(l.s, [local |-> l.v.local, proj |-> Append(l.v.proj, Deref)])])
      [] expr.kind = "Unary" /\ expr.op = "Ref" ->
           With([rvalue \in {ref_expr(s, expr.expr)} |->
           With([l \in {process_to_local(rvalue.s, Use(rvalue.v))} |->
             R(l.s, [local |-> l.v, proj |-> proj])])])
      [] expr.kind = "Field" ->
           With([l \in {lower_place_inner(s, expr.expr, proj)} |->
             R(l.s, [local |-> l.v.local, proj |-> Append(l.v.proj, Field(expr.field))])])
      [] OTHER ->
           With([rv \in {lower_rvalue(s, expr)} |->
           With([l \in {process_to_local(rv.s, rv.v)} |->
             R(l.s, [local |-> l.v, proj |-> proj])])])

\* ref_expr that keeps a trailing Deref and takes a reference of the place
ref_expr_of_any_place(s, expr) ==
    With([place \in {lower_place(s, expr)} |-> R(place.s, ORef(place.v))])

ref_expr(s, expr) ==
    With([place \in {lower_place(s, expr)} |->
      LET n == Len(place.v.projections)
      IN  IF n > 0 /\ place.v.projections[n] = Deref
          THEN R(place.s, OPlace(Place(place.v.local, SubSeq(place.v.projections, 1, n - 1))))
          ELSE R(place.s, ORef(place.v))])

lower_array_lit(s, segments, i, mir_segments) ==
    IF segments = <<>> THEN R(s, Use(OConstant(CEmptyArray(0))))
    ELSE IF i > Len(segments) THEN R(s, BuildArray(mir_segments))
    ELSE
    With([elem \in {lower(s, segments[i].expr)} |->
    With([repeated \in {IF segments[i].repeated = None THEN R(elem.s, None)
                        ELSE With([r \in {lower(elem.s, segments[i].repeated[1])} |->
                               R(r.s, Some(r.v))])} |->
      IF repeated.s.panicked THEN R(repeated.s, RUNIT)
      ELSE lower_array_lit(repeated.s, segments, i + 1,
                           Append(mir_segments, <<elem.v, repeated.v>>))])])

fstring_segments(s, segments, i, mir_segments) ==
    IF i > Len(segments) THEN R(s, mir_segments)
    ELSE
    With([seg_rvalue \in {format_expr(s, segments[i])} |->
    With([p \in {process(seg_rvalue.s, seg_rvalue.v, TStr)} |->
      IF p.s.panicked THEN R(p.s, mir_segments)
      ELSE fstring_segments(p.s, segments, i + 1, Append(mir_segments, p.v))])])

lower_fstrings(s, segments) ==
    IF Len(segments) = 1 THEN format_expr(s, segments[1])
    ELSE With([m \in {fstring_segments(s, segments, 1, <<>>)} |-> R(m.s, StrJoin(m.v))])

lit_rvalue(s, lit) ==
    CASE lit.l = "Unit" -> R(s, Use(OConstant(CUnit)))
      [] lit.l = "Bool" -> R(s, Use(OConstant(CBool(lit.v))))
      [] lit.l = "Int" -> R(s, Use(OConstant(CInt(lit.v))))
      [] lit.l = "String" -> R(s, Use(OConstant(CStr(lit.v))))
      [] lit.l = "Array" -> lower_array_lit(s, lit.segments, 1, <<>>)
      [] lit.l = "FStr" -> lower_fstrings(s, lit.segments)

format_expr(s, e) ==
    With([rvalue \in {lower_rvalue(s, e)} |-> format_rvalue(rvalue.s, rvalue.v, e.ty)])

format_rvalue(s, rvalue_, ty_) ==
    With([d \in {fully_deref(s, rvalue_, ty_)} |->
      IF d.s.panicked THEN R(d.s, RUNIT)
      ELSE IF is_str(d.v.ty) THEN R(d.s, d.v.rvalue)
      ELSE
    With([operand \in {process(d.s, d.v.rvalue, d.v.ty)} |->
      LET ty == d.v.ty
      IN  CASE ty.k = "Never" -> R(operand.s, Use(OConstant(CStr(<<"!">>))))
            [] ty.k = "Unit" -> R(operand.s, Use(OConstant(CStr(<<"(", ")">>))))
            [] ty.k = "Bool" -> R(operand.s, UnaryExpr("BoolToStr", operand.v))
            [] ty.k = "Int" -> R(operand.s, UnaryExpr("IntToStr", operand.v))
            [] ty.k = "Char" -> R(operand.s, UnaryExpr("CharToStr", operand.v))
            [] ty.k = "Struct" -> format_struct(operand.s, ty.id, ty.fields, operand.v)
            [] OTHER -> R(Panic(operand.s), RUNIT)])])

\* format_struct passing the struct by value as well as by reference
format_struct_two_args(s, id, fields, val) ==
    With([body \in {generate_struct_func(s, id, fields)} |->
    With([ref_struct \in {ref_of(body.s, Use(val))} |->
      R(ref_struct.s, Call(OConstant(CFunc(body.v)), <<val, ref_struct.v>>))])])

format_struct(s, id, fields, val) ==
    With([body \in {generate_struct_func(s, id, fields)} |->
    With([ref_struct \in {ref_of(body.s, Use(val))} |->
      R(ref_struct.s, Call(OConstant(CFunc(body.v)), <<ref_struct.v>>))])])

ArrayPush(strings, rhs) == BinaryExpr(ORef(PlaceLocal(strings)), "ArrayPush", rhs)

\* the loop over the fields pushing the separator before every field, the
\* first included
RECURSIVE struct_fields_all_separated(_, _, _, _)
struct_fields_all_separated(s, fields, i, strings) ==
    IF i >= Len(fields) THEN s
    ELSE
    With([s1 \in {process(s, ArrayPush(strings, OConstant(CStr(<<",", " ">>))), TUnit).s} |->
    With([field_str \in {format_rvalue(s1, Use(OPlace(Place(0, <<Deref, Field(i)>>))),
                                       fields[i + 1])} |->
    With([rhs \in {process(field_str.s, field_str.v, TStr)} |->
    With([s2 \in {process(rhs.s, ArrayPush(strings, rhs.v), TUnit).s} |->
      IF s2.panicked THEN s2 ELSE struct_fields_all_separated(s2, fields, i + 1, strings)])])])])

\* for (i, ty) in (0u32..).zip(fields), i counted from 0
struct_fields(s, fields, i, strings) ==
    IF i >= Len(fields) THEN s
    ELSE
    With([s1 \in {IF i # 0
                  THEN process(s, ArrayPush(strings, OConstant(CStr(<<",", " ">>))), TUnit).s
                  ELSE s} |->
    With([field_str \in {format_rvalue(s1, Use(OPlace(Place(0, <<Deref, Field(i)>>))),
                                       fields[i + 1])} |->
    With([rhs \in {process(field_str.s, field_str.v, TStr)} |->
    With([s2 \in {process(rhs.s, ArrayPush(strings, rhs.v), TUnit).s} |->
      IF s2.panicked THEN s2 ELSE struct_fields(s2, fields, i + 1, strings)])])])])

saturating_sub(a, b) == IF a >= b THEN a - b ELSE 0

\* generate_struct_func without the exchange of the current frame
generate_struct_func_in_place(s, id, fields) ==
    LET body_id == Len(s.mir.bodies)
        num_parts == Len(fields) + saturating_sub(Len(fields), 1) + 2
    IN
    With([s1 \in {[s EXCEPT !.mir.bodies = Append(@, BodyNew(None, 1))]} |->
    With([strings \in {assign_new(s1, Use(OConstant(CEmptyArray(num_parts))))} |->
    With([s2 \in {process(strings.s, ArrayPush(strings.v, OConstant(CStr(<<"(">>))),
                          TUnit).s} |->
    With([s3 \in {struct_fields(s2, fields, 0, strings.v)} |->
    With([s4 \in {process(s3, ArrayPush(strings.v, OConstant(CStr(<<")">>))), TUnit).s} |->
    With([o \in {assign_new(s4, UnaryExpr("StrJoin", OLocal(strings.v)))} |->
    With([s5 \in {finish_with(o.s, Return(OLocal(o.v))).s} |->
      LET sdb == s5.struct_display_bodies
          resized == IF Len(sdb) <= id
                     THEN sdb \o [k \in 1..(id + 1 - Len(sdb)) |-> None]
                     ELSE sdb
      IN  R([s5 EXCEPT !.struct_display_bodies = [resized EXCEPT ![id + 1] = Some(body_id)]],
            body_id)])])])])])])])

generate_struct_func(s, id, fields) ==
    LET previous == current(s)
        body_id == Len(s.mir.bodies)
        num_parts == Len(fields) + saturating_sub(Len(fields), 1) + 2
    IN
    With([s1 \in {[s EXCEPT !.mir.bodies = Append(@, BodyNew(None, 1)),
                            !.bodies = Append(SubSeq(@, 1, Len(@) - 1),
                                              BodyInfoNew(body_id))]} |->
    With([strings \in {assign_new(s1, Use(OConstant(CEmptyArray(num_parts))))} |->
    With([s2 \in {process(strings.s, ArrayPush(strings.v, OConstant(CStr(<<"(">>))),
                          TUnit).s} |->
    With([s3 \in {struct_fields(s2, fields, 0, strings.v)} |->
    With([s4 \in {process(s3, ArrayPush(strings.v, OConstant(CStr(<<")">>))), TUnit).s} |->
    With([o \in {assign_new(s4, UnaryExpr("StrJoin", OLocal(strings.v)))} |->
    With([s5 \in {finish_with(o.s, Return(OLocal(o.v))).s} |->
      LET sdb == s5.struct_display_bodies
          resized == IF Len(sdb) <= id
                     THEN sdb \o [k \in 1..(id + 1 - Len(sdb)) |-> None]
                     ELSE sdb
      IN  R([s5 EXCEPT !.struct_display_bodies = [resized EXCEPT ![id + 1] = Some(body_id)],
                       !.bodies = Append(SubSeq(@, 1, Len(@) - 1), previous)],
            body_id)])])])])])])])

lower_rvalue(s, e) ==
    CASE s.panicked -> R(s, RUNIT)
      [] e.kind = "Unreachable" -> R(finish_with(s, Unreachable).s, RUNIT)
      [] e.kind = "Abort" -> R(finish_with(s, Abort).s, RUNIT)
      [] e.kind = "Field" ->
           With([l \in {lower_local(s, e.expr)} |->
             R(l.s, Use(OPlace(Place(l.v, <<Field(e.field)>>))))])
      [] e.kind = "StructInit" ->
           With([local \in {assign_new(s, Use(OConstant(CUninitStruct(body_ref(s).params))))} |->
             R(struct_init(local.s, local.v, 0, body_ref(s).params), RLocal(local.v))])
      [] e.kind = "PrintStr" -> R(s, UnaryExpr("Println", OConstant(CStr(e.str))))
      [] e.kind = "Literal" -> lit_rvalue(s, e.lit)
      [] e.kind = "Unary" /\ e.op = "Ref" ->
           With([r \in {ref_expr(s, e.expr)} |-> R(r.s, Use(r.v))])
      [] e.kind = "Unary" /\ e.op = "Deref" ->
           With([rvalue \in {lower_rvalue(s, e.expr)} |->
           With([d \in {deref_operand(rvalue.s, rvalue.v)} |-> R(d.s, Use(d.v))])])
      [] e.kind = "Unary" /\ e.op \notin {"Ref", "Deref"} ->
           With([operand \in {lower(s, e.expr)} |->
             R(operand.s, UnaryExpr(IF e.op = "Not" THEN "BoolNot" ELSE "IntNeg", operand.v))])
      [] e.kind = "FnDecl" -> fn_decl(s, e)
      [] e.kind = "Let" -> let_expr(s, e)
      [] e.kind = "Return" ->
           With([place \in {lower(s, e.expr)} |->
             R(finish_with(place.s, Return(place.v)).s, RUNIT)])
      [] e.kind = "Loop" -> loop_expr(s, e)
      [] e.kind = "If" -> if_expr(s, e)
      [] e.kind = "Assignment" ->
           With([rvalue \in {lower_rvalue(s, e.expr)} |->
           With([place \in {lower_place(rvalue.s, e.lhs)} |->
             R(assign(place.s, place.v, rvalue.v), Use(OConstant(CUnit)))])])
      [] e.kind = "Binary" -> binary_op(s, e.lhs, e.op, e.rhs)
      [] e.kind = "Ident" -> load_ident(s, e.ident)
      [] e.kind = "FnCall" ->
           With([function \in {lower(s, e.function)} |->
           With([args \in {lower_args(function.s, e.args, 1, <<>>)} |->
             try_call_intrinsic(args.s, function.v, args.v)])])
      [] e.kind = "Break" ->
           With([block \in {finish_with(s, Goto(PLACEHOLDER))} |->
             R(current_mut(block.s, [current(block.s) EXCEPT !.breaks = Append(@, block.v)]),
               RUNIT)])
      [] e.kind = "Index" /\ (is_str(e.expr.ty) \/ is_range(e.index.ty)) ->
           With([lhs \in {lower(s, e.expr)} |->
           With([rhs \in {lower(lhs.s, e.index)} |->
             R(rhs.s, BinaryExpr(lhs.v,
                                 IF is_str(e.expr.ty)
                                 THEN IF is_range(e.index.ty) THEN "StrIndexSlice"
                                      ELSE "StrIndex"
                                 ELSE "ArrayIndexRange",
                                 rhs.v))])])
      [] e.kind = "Index" /\ ~(is_str(e.expr.ty) \/ is_range(e.index.ty)) ->
           index_array(s, e.expr, e.index)
      [] e.kind = "Block" -> block_expr(s, e.exprs)

\* the states the hasher of the HashMaps of one run of lower() may start
\* in: it decides the order in which a map would be iterated
Hashers == {1, 2}

\* hir_lowering::lower: the root body frame, then every top-level expression
LoweringNew ==
    [mir |-> [bodies |-> <<[BodyNew(None, 0) EXCEPT !.auto = TRUE]>>, main_body |-> None],
     bodies |-> <<BodyInfoNew(0)>>,
     struct_display_bodies |-> <<>>,
     hasher |-> 1,
     panicked |-> FALSE]

lower_hashed(root, hasher) ==
    With([l \in {lower_each([LoweringNew EXCEPT !.hasher = hasher], root, 1, OUNIT).s} |->
      IF l.panicked \/ l.mir.bodies[1].blocks # <<>>
      THEN [panicked |-> TRUE, bodies |-> <<>>, main_body |-> None]
      ELSE [panicked |-> FALSE, bodies |-> l.mir.bodies, main_body |-> l.mir.main_body]])

lower_hir(root) == lower_hashed(root, 1)

(***************************************************************************)
(* Interpreter values (src/src/mir_interpreter/value.rs).  An Allocation   *)
(* is the index of a cell of `heap`; cloning an Allocation copies the      *)
(* index.  An Array is a shared buffer, kept in a heap cell of its own.    *)
(* Strings are sequences of one-character strings.                         *)
(***************************************************************************)
VUnit == [k |-> "Unit"]
VBool(b) == [k |-> "Bool", v |-> b]
VInt(i) == [k |-> "Int", v |-> i]
VStr(str) == [k |-> "Str", v |-> str]
\* a char is held as its code point
VChar(code) == [k |-> "Char", v |-> code]
VFn(b) == [k |-> "Fn", v |-> b]
VRange(a, b) == [k |-> "Range", start |-> a, end |-> b]
VStruct(cells) == [k |-> "Struct", cells |-> cells]
VRef(cell) == [k |-> "Ref", cell |-> cell]
VArray(buf) == [k |-> "Array", buf |-> buf]
Buffer(elems) == [k |-> "Buffer", elems |-> elems]

\* E(ok, h, v): the outcome of an evaluation: panicked or not, the heap after it, its value
E(ok, h, v) == [ok |-> ok, h |-> h, v |-> v]
Fail(h) == E(FALSE, h, VUnit)

\* Allocation::from(value): a fresh cell
alloc(h, value) == E(TRUE, Append(h, value), Len(h) + 1)

\* impl Clone for Value: struct fields are cloned into fresh cells, Ref and
\* Array handles are shared
\* a clone that shares the field cells of a struct
clone_sharing_fields(h, value) == E(TRUE, h, value)

RECURSIVE clone(_, _), clone_fields(_, _, _, _)
clone(h, value) ==
    IF value.k = "Struct"
    THEN With([c \in {clone_fields(h, value.cells, 1, <<>>)} |-> E(TRUE, c.h, VStruct(c.v))])
    ELSE E(TRUE, h, value)

\* strct.iter().map(|a| a.clone_raw().into()).collect()
clone_fields(h, cells, i, acc) ==
    IF i > Len(cells) THEN E(TRUE, h, acc)
    ELSE With([c \in {clone(h, h[cells[i]])} |->
         With([a \in {alloc(c.h, c.v)} |->
           clone_fields(a.h, cells, i + 1, Append(acc, a.v))])])

\* Allocation::clone_raw
clone_raw(h, cell) == clone(h, h[cell])

\* Value::unwrap_int_usize on the value in a cell
is_usize(value) == value.k = "Int" /\ value.v >= 0

\* Interpreter::load_place: Some(cell) the place designates, None on a panic
RECURSIVE load_place_from(_, _, _, _, _)
load_place_from(h, locals, a, projections, i) ==
    IF i > Len(projections) THEN Some(a)
    ELSE With([projection \in {projections[i]} |->
         With([value \in {h[a]} |->
             CASE projection.p = "Deref" ->
                    IF value.k = "Ref"
                    THEN load_place_from(h, locals, value.cell, projections, i + 1)
                    ELSE None
               [] projection.p = "Field" ->
                    IF value.k = "Struct" /\ projection.i < Len(value.cells)
                    THEN load_place_from(h, locals, value.cells[projection.i + 1],
                                         projections, i + 1)
                    ELSE None
               [] projection.p = "Index" ->
                    IF /\ projection.l < Len(locals)
                       /\ is_usize(h[locals[projection.l + 1]])
                       /\ value.k = "Array"
                       /\ h[locals[projection.l + 1]].v < Len(h[value.buf].elems)
                    THEN load_place_from(h, locals,
                                         h[value.buf].elems[h[locals[projection.l + 1]].v + 1],
                                         projections, i + 1)
                    ELSE None
               [] projection.p = "ConstantIndex" ->
                    IF value.k = "Array" /\ projection.n < Len(h[value.buf].elems)
                    THEN load_place_from(h, locals, h[value.buf].elems[projection.n + 1],
                                         projections, i + 1)
                    ELSE None])])

load_place(h, locals, place) ==
    IF place.local < Len(locals)
    THEN load_place_from(h, locals, locals[place.local + 1], place.projections, 1)
    ELSE None

\* n fresh cells holding Unit
RECURSIVE unit_cells(_, _, _)
unit_cells(h, n, acc) ==
    IF n = 0 THEN E(TRUE, h, acc)
    ELSE With([a \in {alloc(h, VUnit)} |-> unit_cells(a.h, n - 1, Append(acc, a.v))])

\* Interpreter::operand on an Operand::Constant
constant(h, c) ==
    CASE c.c = "Unit" -> E(TRUE, h, VUnit)
      [] c.c = "Bool" -> E(TRUE, h, VBool(c.v))
      [] c.c = "Int" -> E(TRUE, h, VInt(c.v))
      [] c.c = "Str" -> E(TRUE, h, VStr(c.v))
      [] c.c = "Func" -> E(TRUE, h, VFn(c.body))
      [] c.c = "EmptyArray" ->
           With([b \in {alloc(h, Buffer(<<>>))} |-> E(TRUE, b.h, VArray(b.v))])
      [] c.c = "UninitStruct" ->
           With([u \in {unit_cells(h, c.size, <<>>)} |-> E(TRUE, u.h, VStruct(u.v))])

\* Interpreter::operand
operand(h, locals, op) ==
    CASE op.o = "Ref" ->
           With([a \in {load_place(h, locals, op.place)} |->
             IF a = None THEN Fail(h) ELSE E(TRUE, h, VRef(a[1]))])
      [] op.o = "Constant" ->
           constant(h, op.c)
      [] op.o = "Place" ->
           With([a \in {load_place(h, locals, op.place)} |->
             IF a = None THEN Fail(h) ELSE clone_raw(h, a[1])])

\* i64::to_string, as a sequence of characters
Digits == <<"0", "1", "2", "3", "4", "5", "6", "7", "8", "9">>
RECURSIVE nat_to_string(_)
nat_to_string(n) ==
    IF n < 10 THEN <<Digits[n + 1]>>
    ELSE Append(nat_to_string(n \div 10), Digits[(n % 10) + 1])
int_to_string(i) == IF i < 0 THEN <<"-">> \o nat_to_string(-i) ELSE nat_to_string(i)
bool_to_string(b) == IF b THEN <<"t", "r", "u", "e">> ELSE <<"f", "a", "l", "s", "e">>

\* the strings of an array of Str cells, concatenated
RECURSIVE join_cells(_, _, _)
join_cells(h, elems, i) ==
    IF i > Len(elems) THEN <<>> ELSE h[elems[i]].v \o join_cells(h, elems, i + 1)

\* X(ok, h, v, o): E together with stdout after the evaluation
X(e, o) == [ok |-> e.ok, h |-> e.h, v |-> e.v, o |-> o]

\* the quotient rounded towards zero, for b # 0
trunc_div(a, b) ==
    IF (a >= 0) = (b >= 0)
    THEN (IF a >= 0 THEN a ELSE -a) \div (IF b >= 0 THEN b ELSE -b)
    ELSE -((IF a >= 0 THEN a ELSE -a) \div (IF b >= 0 THEN b ELSE -b))

\* a division that yields 0 where the divisor is 0
int_div_total(h, a, b) ==
    IF b = 0 THEN E(TRUE, h, VInt(0)) ELSE E(TRUE, h, VInt(trunc_div(a, b)))

\* lhs / rhs: panics on a zero divisor (and on i64::MIN / -1, which is
\* beyond the integers of the programs)
int_div(h, a, b) == IF b = 0 THEN Fail(h) ELSE E(TRUE, h, VInt(trunc_div(a, b)))

\* lhs % rhs on i64: the remainder has the sign of lhs
int_rem(h, a, b) ==
    IF b = 0 THEN Fail(h) ELSE E(TRUE, h, VInt(a - b * trunc_div(a, b)))

\* the code point of each character the programs use
CodePoint ==
    ("a" :> 97) @@ ("b" :> 98) @@ ("c" :> 99) @@ ("x" :> 120)

\* lhs.as_bytes()[rhs.unwrap_int_usize()] as char
str_index(h, str, index) ==
    IF is_usize(index) /\ index.v < Len(str) /\ str[index.v + 1] \in DOMAIN CodePoint
    THEN E(TRUE, h, VChar(CodePoint[str[index.v + 1]]))
    ELSE Fail(h)

\* lhs[rhs.unwrap_range_usize()]
str_index_slice(h, str, range) ==
    IF /\ range.k = "Range"
       /\ range.start >= 0
       /\ range.end >= 0
       /\ range.start <= range.end
       /\ range.end <= Len(str)
    THEN E(TRUE, h, VStr(SubSeq(str, range.start + 1, range.end)))
    ELSE Fail(h)

\* the byte offsets at which needle occurs in str
Occurrences(str, needle) ==
    {i \in 0..(Len(str) - Len(needle)) : SubSeq(str, i + 1, i + Len(needle)) = needle}

\* lhs.find(rhs).unwrap()
str_find(h, str, needle) ==
    IF Occurrences(str, needle) = {} THEN Fail(h)
    ELSE E(TRUE, h, VInt(CHOOSE i \in Occurrences(str, needle) :
                           \A j \in Occurrences(str, needle) : i <= j))

\* lhs.rfind(rhs).unwrap()
str_rfind(h, str, needle) ==
    IF Occurrences(str, needle) = {} THEN Fail(h)
    ELSE E(TRUE, h, VInt(CHOOSE i \in Occurrences(str, needle) :
                           \A j \in Occurrences(str, needle) : j <= i))

\* u8::try_from(int).unwrap() as char
chr(h, int) == IF 0 <= int /\ int <= 255 THEN E(TRUE, h, VChar(int)) ELSE Fail(h)

\* i64, at IntBits bits
IntBits == 10
I64Max == 2 ^ (IntBits - 1) - 1
I64Min == 0 - 2 ^ (IntBits - 1)

\* lhs + rhs on i64: with overflow checks a sum outside i64 panics (None),
\* without them it wraps
int_add(lhs, rhs, overflow_checks) ==
    IF lhs + rhs \in I64Min..I64Max THEN Some(lhs + rhs)
    ELSE IF overflow_checks THEN None
    ELSE Some(((lhs + rhs - I64Min) % (2 ^ IntBits)) + I64Min)

int_range(lhs, rhs) == VRange(lhs, rhs)

\* the range ends at rhs itself
int_range_inclusive_to_end(lhs, rhs, overflow_checks) == Some(VRange(lhs, rhs))

\* lhs.unwrap_int()..rhs.unwrap_int() + 1
int_range_inclusive(lhs, rhs, overflow_checks) ==
    With([end \in {int_add(rhs, 1, overflow_checks)} |->
      IF end = None THEN None ELSE Some(VRange(lhs, end[1]))])

binary_value(h, op, lhs, rhs) ==
    LET ints == lhs.k = "Int" /\ rhs.k = "Int"
    IN  CASE op = "IntAdd" /\ ints -> E(TRUE, h, VInt(lhs.v + rhs.v))
          [] op = "IntSub" /\ ints -> E(TRUE, h, VInt(lhs.v - rhs.v))
          [] op = "IntMul" /\ ints -> E(TRUE, h, VInt(lhs.v * rhs.v))
          [] op = "IntDiv" /\ ints -> int_div(h, lhs.v, rhs.v)
          [] op = "IntMod" /\ ints -> int_rem(h, lhs.v, rhs.v)
          [] op = "IntLess" /\ ints -> E(TRUE, h, VBool(lhs.v < rhs.v))
          [] op = "IntGreater" /\ ints -> E(TRUE, h, VBool(lhs.v > rhs.v))
          [] op = "IntLessEq" /\ ints -> E(TRUE, h, VBool(lhs.v <= rhs.v))
          [] op = "IntGreaterEq" /\ ints -> E(TRUE, h, VBool(lhs.v >= rhs.v))
          [] op = "IntEq" /\ ints -> E(TRUE, h, VBool(lhs.v = rhs.v))
          [] op = "IntNeq" /\ ints -> E(TRUE, h, VBool(lhs.v # rhs.v))
          [] op = "IntRange" /\ ints -> E(TRUE, h, int_range(lhs.v, rhs.v))
          [] op = "IntRangeInclusive" /\ ints ->
               \* the programs the interpreter runs here end their ranges
               \* below I64Max, where the build makes no difference
               With([range \in {int_range_inclusive(lhs.v, rhs.v, TRUE)} |->
                 IF range = None THEN Fail(h) ELSE E(TRUE, h, range[1])])
          [] op = "CharEq" /\ lhs.k = "Char" /\ rhs.k = "Char" ->
               E(TRUE, h, VBool(lhs.v = rhs.v))
          [] op = "CharNeq" /\ lhs.k = "Char" /\ rhs.k = "Char" ->
               E(TRUE, h, VBool(lhs.v # rhs.v))
          [] op = "StrIndex" /\ lhs.k = "Str" -> str_index(h, lhs.v, rhs)
          [] op = "StrIndexSlice" /\ lhs.k = "Str" -> str_index_slice(h, lhs.v, rhs)
          [] op = "StrFind" /\ lhs.k = "Str" /\ rhs.k = "Str" -> str_find(h, lhs.v, rhs.v)
          [] op = "StrRFind" /\ lhs.k = "Str" /\ rhs.k = "Str" -> str_rfind(h, lhs.v, rhs.v)
          [] op = "StrEq" /\ lhs.k = "Str" /\ rhs.k = "Str" -> E(TRUE, h, VBool(lhs.v = rhs.v))
          [] op = "StrNeq" /\ lhs.k = "Str" /\ rhs.k = "Str" -> E(TRUE, h, VBool(lhs.v # rhs.v))
          [] op = "StrAdd" /\ lhs.k = "Str" /\ rhs.k = "Str" -> E(TRUE, h, VStr(lhs.v \o rhs.v))
          [] op = "ArrayPush" /\ lhs.k = "Ref" /\ h[lhs.cell].k = "Array" ->
               With([a \in {alloc(h, rhs)} |->
                 E(TRUE, [a.h EXCEPT ![h[lhs.cell].buf] = Buffer(Append(@.elems, a.v))],
                   VUnit)])
          [] OTHER -> Fail(h)

unary_value(h, o, op, value) ==
    CASE op = "BoolNot" /\ value.k = "Bool" -> X(E(TRUE, h, VBool(~value.v)), o)
      [] op = "IntNeg" /\ value.k = "Int" -> X(E(TRUE, h, VInt(-value.v)), o)
      [] op = "IntToStr" /\ value.k = "Int" -> X(E(TRUE, h, VStr(int_to_string(value.v))), o)
      [] op = "Chr" /\ value.k = "Int" -> X(chr(h, value.v), o)
      [] op = "BoolToStr" /\ value.k = "Bool" ->
           X(E(TRUE, h, VStr(bool_to_string(value.v))), o)
      [] op = "StrJoin" /\ value.k = "Array" ->
           X(E(TRUE, h, VStr(join_cells(h, h[value.buf].elems, 1))), o)
      [] op = "Println" /\ value.k = "Str" -> X(E(TRUE, h, VUnit), Append(o, value.v))
      [] OTHER -> X(Fail(h), o)

\* args.iter().map(|arg| self.operand(arg, locals)).collect()
RECURSIVE operands(_, _, _, _, _)
operands(h, locals, ops, i, acc) ==
    IF i > Len(ops) THEN E(TRUE, h, acc)
    ELSE With([v \in {operand(h, locals, ops[i])} |->
           IF v.ok THEN operands(v.h, locals, ops, i + 1, Append(acc, v.v)) ELSE Fail(v.h)])

\* Array::extend(value, repeat): repeat more cells, each holding value
RECURSIVE extend(_, _, _, _)
extend(h, elems, value, repeat) ==
    IF repeat = 0 THEN E(TRUE, h, elems)
    ELSE With([c \in {clone(h, value)} |->
         With([a \in {alloc(c.h, c.v)} |->
           extend(a.h, Append(elems, a.v), value, repeat - 1)])])

\* RValue::BuildArray: the segments in order, a segment without a repeat
\* count contributing one element
RECURSIVE build_array(_, _, _, _, _)
build_array(h, locals, segments, i, elems) ==
    IF i > Len(segments)
    THEN With([b \in {alloc(h, Buffer(elems))} |-> E(TRUE, b.h, VArray(b.v))])
    ELSE
    With([v \in {operand(h, locals, segments[i][1])} |->
    With([n \in {IF ~v.ok THEN Fail(h)
                 ELSE IF segments[i][2] = None THEN E(TRUE, v.h, VInt(1))
                 ELSE operand(v.h, locals, segments[i][2][1])} |->
      IF n.ok /\ is_usize(n.v)
      THEN With([x \in {extend(n.h, elems, v.v, n.v.v)} |->
             build_array(x.h, locals, segments, i + 1, x.v)])
      ELSE Fail(h)])])

\* Interpreter::rvalue for every r-value but Call
rvalue(h, o, locals, rv) ==
    CASE rv.r = "Use" -> X(operand(h, locals, rv.operand), o)
      [] rv.r = "BinaryExpr" ->
           With([lhs \in {operand(h, locals, rv.lhs)} |->
           With([rhs \in {IF lhs.ok THEN operand(lhs.h, locals, rv.rhs) ELSE Fail(h)} |->
             IF rhs.ok THEN X(binary_value(rhs.h, rv.op, lhs.v, rhs.v), o)
             ELSE X(Fail(h), o)])])
      [] rv.r = "UnaryExpr" ->
           With([v \in {operand(h, locals, rv.operand)} |->
             IF v.ok THEN unary_value(v.h, o, rv.op, v.v) ELSE X(Fail(h), o)])
      [] rv.r = "BuildArray" -> X(build_array(h, locals, rv.segments, 1, <<>>), o)
      [] rv.r = "StrJoin" ->
           With([vs \in {operands(h, locals, rv.segments, 1, <<>>)} |->
             IF vs.ok /\ \A i \in 1..Len(vs.v) : vs.v[i].k = "Str"
             THEN LET cat[i \in 0..Len(vs.v)] ==
                          IF i = 0 THEN <<>> ELSE cat[i - 1] \o vs.v[i].v
                  IN  X(E(TRUE, vs.h, VStr(cat[Len(vs.v)])), o)
             ELSE X(Fail(h), o)])
      [] OTHER -> X(Fail(h), o)

(***************************************************************************)
(* The interpreter as a state machine (Interpreter::run).  A frame is one  *)
(* activation of run: its body, the block it is in, the statement it is    *)
(* at (1-based) and its locals.  A Call pushes a frame; Return pops it and *)
(* the caller completes its pending assignment.                            *)
(***************************************************************************)
MaxSteps == 400

Frame(body, locals) == [body |-> body, block |-> 0, stmt |-> 1, locals |-> locals]

\* locals[i] = arg.into() for each argument
RECURSIVE store_args(_, _, _, _)
store_args(h, locals, args, i) ==
    IF i > Len(args) THEN E(TRUE, h, locals)
    ELSE IF i > Len(locals) THEN Fail(h)
    ELSE With([a \in {alloc(h, args[i])} |->
           store_args(a.h, [locals EXCEPT ![i] = a.v], args, i + 1)])

\* the locals of a body allocated once: a call of a body that is already
\* running takes the cells of the running call
enter_static_locals(h, body_id, args) ==
    With([body \in {mir.bodies[body_id + 1]} |->
    With([running \in {{i \in 1..Len(frames) : frames[i].body = body_id}} |->
      IF running = {}
      THEN With([fresh \in {unit_cells(h, body.locals, <<>>)} |->
           With([stored \in {store_args(fresh.h, fresh.v, args, 1)} |->
             IF stored.ok /\ body.blocks # <<>>
             THEN E(TRUE, stored.h, Frame(body_id, stored.v))
             ELSE Fail(h)])])
      ELSE With([locals \in {frames[CHOOSE i \in running : \A j \in running : j <= i].locals} |->
             E(TRUE,
               [c \in 1..Len(h) |->
                  IF \E i \in 1..Len(args) : locals[i] = c
                  THEN args[CHOOSE i \in 1..Len(args) : locals[i] = c]
                  ELSE h[c]],
               Frame(body_id, locals))])])])

\* the head of run: the frame of a call of body_id with args
enter(h, body_id, args) ==
    With([body \in {mir.bodies[body_id + 1]} |->
    With([fresh \in {unit_cells(h, body.locals, <<>>)} |->
    With([stored \in {store_args(fresh.h, fresh.v, args, 1)} |->
      IF stored.ok /\ body.blocks # <<>>
      THEN E(TRUE, stored.h, Frame(body_id, stored.v))
      ELSE Fail(h)])])])

top == frames[Len(frames)]
top_body == mir.bodies[top.body + 1]
top_block == top_body.blocks[top.block + 1]
at_statement == phase = "run" /\ steps < MaxSteps /\ top.stmt <= Len(top_block.statements)
at_terminator == phase = "run" /\ steps < MaxSteps /\ top.stmt > Len(top_block.statements)
statement == top_block.statements[top.stmt]

\* store that writes the cell of the place's local, whatever its projections
store_at_local(h, fs, place, value) ==
    IF place.local >= Len(fs[Len(fs)].locals) THEN Fail(h)
    ELSE E(TRUE, [h EXCEPT ![fs[Len(fs)].locals[place.local + 1]] = value],
           [fs EXCEPT ![Len(fs)].stmt = @ + 1])

\* write value into the cell of place and move to the next statement of the top frame
store(h, fs, place, value) ==
    With([a \in {load_place(h, fs[Len(fs)].locals, place)} |->
      IF a = None THEN Fail(h)
      ELSE E(TRUE, [h EXCEPT ![a[1]] = value], [fs EXCEPT ![Len(fs)].stmt = @ + 1])])

\* block_id = target; the next iteration indexes body.blocks[block_id]
jump(target) ==
    IF target < Len(top_body.blocks)
    THEN /\ frames' = [frames EXCEPT ![Len(frames)].block = target, ![Len(frames)].stmt = 1]
         /\ phase' = "run"
    ELSE /\ frames' = frames
         /\ phase' = "panic"

Lower ==
    /\ phase = "hir"
    /\ \E hasher \in Hashers : mir' = lower_hashed(hir, hasher)
    /\ phase' = IF mir'.panicked THEN "lower_panic" ELSE "mir"
    /\ UNCHANGED <<eval, tcx, parser, hir, frames, heap, out, ret, steps>>

\* mir_interpreter::interpret
Interpret ==
    /\ phase = "mir"
    /\ IF mir.main_body = None
       THEN /\ phase' = "done"
            /\ UNCHANGED <<frames, heap>>
       ELSE \E f \in {enter(heap, mir.main_body[1], <<>>)} :
                /\ phase' = IF f.ok THEN "run" ELSE "panic"
                /\ frames' = IF f.ok THEN <<f.v>> ELSE frames
                /\ heap' = f.h
    /\ UNCHANGED <<eval, tcx, parser, hir, mir, out, ret, steps>>

\* an assignment that resolves its destination and moves the old value out
\* of it before it evaluates the r-value
StepAssignDestinationFirst ==
    /\ at_statement
    /\ statement.rvalue.r # "Call"
    /\ \E a \in {load_place(heap, top.locals, statement.place)} :
       \E v \in {IF a = None THEN X(Fail(heap), out)
                  ELSE rvalue([heap EXCEPT ![a[1]] = VUnit], out, top.locals,
                              statement.rvalue)} :
       \E w \in {IF v.ok THEN store(v.h, frames, statement.place, v.v) ELSE Fail(heap)} :
           /\ phase' = IF w.ok THEN "run" ELSE "panic"
           /\ heap' = IF w.ok THEN w.h ELSE heap
           /\ frames' = IF w.ok THEN w.v ELSE frames
           /\ out' = IF w.ok THEN v.o ELSE out
    /\ steps' = steps + 1
    /\ UNCHANGED <<eval, tcx, parser, hir, mir, ret>>

StepAssign ==
    /\ at_statement
    /\ statement.rvalue.r # "Call"
    /\ \E v \in {rvalue(heap, out, top.locals, statement.rvalue)} :
       \E w \in {IF v.ok THEN store(v.h, frames, statement.place, v.v) ELSE Fail(heap)} :
           /\ phase' = IF w.ok THEN "run" ELSE "panic"
           /\ heap' = IF w.ok THEN w.h ELSE heap
           /\ frames' = IF w.ok THEN w.v ELSE frames
           /\ out' = IF w.ok THEN v.o ELSE out
    /\ steps' = steps + 1
    /\ UNCHANGED <<eval, tcx, parser, hir, mir, ret>>

StepCall ==
    /\ at_statement
    /\ statement.rvalue.r = "Call"
    /\ \E function \in {operand(heap, top.locals, statement.rvalue.function)} :
       \E args \in {IF function.ok /\ function.v.k = "Fn"
                    THEN operands(function.h, top.locals, statement.rvalue.args, 1, <<>>)
                    ELSE Fail(heap)} :
       \E f \in {IF args.ok THEN enter(args.h, function.v.v, args.v) ELSE Fail(heap)} :
           /\ phase' = IF f.ok THEN "run" ELSE "panic"
           /\ heap' = IF f.ok THEN f.h ELSE heap
           /\ frames' = IF f.ok THEN Append(frames, f.v) ELSE frames
    /\ steps' = steps + 1
    /\ UNCHANGED <<eval, tcx, parser, hir, mir, out, ret>>

StepGoto ==
    /\ at_terminator
    /\ top_block.terminator.t = "Goto"
    /\ jump(top_block.terminator.target)
    /\ steps' = steps + 1
    /\ UNCHANGED <<eval, tcx, parser, hir, mir, heap, out, ret>>

StepBranch ==
    /\ at_terminator
    /\ top_block.terminator.t = "Branch"
    /\ \E condition \in {operand(heap, top.locals, top_block.terminator.condition)} :
           IF condition.ok /\ condition.v.k = "Bool"
           THEN /\ jump(IF condition.v.v THEN top_block.terminator.tru
                        ELSE top_block.terminator.fals)
                /\ heap' = condition.h
           ELSE /\ phase' = "panic"
                /\ UNCHANGED <<frames, heap>>
    /\ steps' = steps + 1
    /\ UNCHANGED <<eval, tcx, parser, hir, mir, out, ret>>

\* return self.operand(operand, &locals): the value goes to the caller's pending
\* Assign, or ends the run when this is the call of main
StepReturn ==
    /\ at_terminator
    /\ top_block.terminator.t = "Return"
    /\ \E v \in {operand(heap, top.locals, top_block.terminator.operand)} :
       \E callers \in {SubSeq(frames, 1, Len(frames) - 1)} :
           IF ~v.ok
           THEN /\ phase' = "panic"
                /\ UNCHANGED <<frames, heap, ret>>
           ELSE IF callers = <<>>
           THEN /\ phase' = "done"
                /\ frames' = callers
                /\ heap' = v.h
                /\ ret' = Some(v.v)
           ELSE \E caller \in {callers[Len(callers)]} :
                \E pending \in {mir.bodies[caller.body + 1].blocks[caller.block + 1]
                                   .statements[caller.stmt]} :
                \E w \in {store(v.h, callers, pending.place, v.v)} :
                    /\ phase' = IF w.ok THEN "run" ELSE "panic"
                    /\ frames' = IF w.ok THEN w.v ELSE frames
                    /\ heap' = IF w.ok THEN w.h ELSE heap
                    /\ ret' = ret
    /\ steps' = steps + 1
    /\ UNCHANGED <<eval, tcx, parser, hir, mir, out>>

\* an Abort that goes on with the block after it
StepAbortFallsThrough ==
    /\ at_terminator
    /\ top_block.terminator.t \in {"Abort", "Unreachable"}
    /\ jump(top.block + 1)
    /\ steps' = steps + 1
    /\ UNCHANGED <<eval, tcx, parser, hir, mir, heap, out, ret>>

\* Terminator::Abort ends the process; Terminator::Unreachable panics
StepAbort ==
    /\ at_terminator
    /\ top_block.terminator.t \in {"Abort", "Unreachable"}
    /\ phase' = IF top_block.terminator.t = "Abort" THEN "abort" ELSE "panic"
    /\ steps' = steps + 1
    /\ UNCHANGED <<eval, tcx, parser, hir, mir, frames, heap, out, ret>>

Next ==
    \/ Lower
    \/ Interpret
    \/ StepAssign
    \/ StepCall
    \/ StepGoto
    \/ StepBranch
    \/ StepReturn
    \/ StepAbort

NoMir == [panicked |-> FALSE, bodies |-> <<>>, main_body |-> None]

(***************************************************************************)
(* parse_string (src/src/parse/mod.rs) on the text between the quotes of   *)
(* one string literal, one iteration of its loop over the characters at a  *)
(* step.  raw is the text, pos the 1-based position of the next character  *)
(* of `chars`, and result is None until the function has returned or       *)
(* panicked.  The expression of an interpolation is parsed by              *)
(* stream.parse(); here it is an identifier, and any other expression      *)
(* ends the run in the outcome "Other".                                    *)
(***************************************************************************)
NoParser == [raw |-> <<>>, pos |-> 0, current |-> <<>>, segments |-> <<>>,
             escaped |-> FALSE, result |-> None]

\* the locals at the head of the loop, before the first character
ParserNew(raw) == [raw |-> raw, pos |-> 1, current |-> <<>>, segments |-> <<>>,
                   escaped |-> FALSE, result |-> None]

LitStr(str) == [lit |-> "Str", v |-> str]
LitFStr(segments) == [lit |-> "FStr", segments |-> segments]
SegIdent(name) == [lit |-> "Ident", v |-> name]
Panicked == [lit |-> "Panic"]
OtherExpr == [lit |-> "Other"]

IdentChars == {"a", "b"}

\* the characters of the identifier the lexer reads from position i on
RECURSIVE ident_from(_, _)
ident_from(raw, i) ==
    IF i <= Len(raw) /\ raw[i] \in IdentChars THEN <<raw[i]>> \o ident_from(raw, i + 1)
    ELSE <<>>

\* the `$` arm: close the pending text, parse the expression after `${`,
\* require the `}` after it
interpolation(p) ==
    LET pending == IF p.current # <<>> THEN Append(p.segments, LitStr(p.current))
                   ELSE p.segments
        ident == ident_from(p.raw, p.pos + 2)
        after == p.pos + 2 + Len(ident)
    IN  IF ident = <<>> THEN [p EXCEPT !.result = Some(OtherExpr)]
        ELSE IF after > Len(p.raw) THEN [p EXCEPT !.result = Some(Panicked)]
        ELSE IF p.raw[after] # "}" THEN [p EXCEPT !.result = Some(OtherExpr)]
        ELSE [p EXCEPT !.segments = Append(pending, SegIdent(ident)),
                       !.current = <<>>,
                       !.pos = after + 1]

\* one iteration of `while let Some((_, char)) = chars.next()`
parse_char(p) ==
    LET char == p.raw[p.pos]
    IN  IF char = "$" /\ ~p.escaped /\ p.pos < Len(p.raw) /\ p.raw[p.pos + 1] = "{"
        THEN interpolation(p)
        ELSE IF char = "/" /\ ~p.escaped
        THEN [p EXCEPT !.escaped = TRUE, !.pos = @ + 1]
        ELSE IF p.escaped
        THEN [p EXCEPT !.result = Some(Panicked)]
        ELSE [p EXCEPT !.escaped = FALSE, !.current = Append(@, char), !.pos = @ + 1]

\* after the loop: a plain string when no segment was pushed, else the
\* segments and the pending text
parse_finish(p) ==
    IF p.segments = <<>> THEN [p EXCEPT !.result = Some(LitStr(p.current))]
    ELSE [p EXCEPT !.result = Some(LitFStr(IF p.current # <<>>
                                           THEN Append(p.segments, LitStr(p.current))
                                           ELSE p.segments))]

ParseChar ==
    /\ phase = "parse"
    /\ parser.result = None
    /\ parser.pos <= Len(parser.raw)
    /\ parser' = parse_char(parser)
    /\ UNCHANGED <<eval, tcx, hir, mir, phase, frames, heap, out, ret, steps>>

ParseFinish ==
    /\ phase = "parse"
    /\ parser.result = None
    /\ parser.pos > Len(parser.raw)
    /\ parser' = parse_finish(parser)
    /\ UNCHANGED <<eval, tcx, hir, mir, phase, frames, heap, out, ret, steps>>

(***************************************************************************)
(* The type context (src/src/ty/mod.rs).  tcx.subs is TyCtxInner.subs, the *)
(* entry of TyVid v at index v + 1; tcx.call is the last call made on the  *)
(* TyCtx and tcx.returned what it returned.                                *)
(*            Types are interned, so equality of Ty is equality of the     *)
(* type.  The recursion of the functions is unbounded in the source; a     *)
(* call that is MaxStack calls deep ends in StackOverflow.                 *)
(***************************************************************************)
TInfer(var) == [k |-> "Infer", var |-> var]
TFunction(params, output) == [k |-> "Function", params |-> params, ret |-> output]
is_never(ty) == ty.k = "Never"

NoCall == [r |-> "none"]
TyOk == [r |-> "Ok"]
TyErr(lhs, rhs) == [r |-> "Err", tys |-> <<lhs, rhs>>]
Vid(var) == [r |-> "vid", var |-> var]
Resolved(ty) == [r |-> "ty", ty |-> ty]
TyPanic == [r |-> "panic"]
StackOverflow == [r |-> "overflow"]

TyCall(fn, args) == [fn |-> fn, args |-> args]

NoTcx == [subs |-> <<>>, call |-> TyCall("new", <<>>), returned |-> NoCall]

MaxStack == 24

\* the outcome of a call that writes subs: the table and the value returned
U(subs, res) == [subs |-> subs, res |-> res]

RECURSIVE infer_shallow(_, _, _)
infer_shallow(subs, ty, stack) ==
    IF stack = 0 THEN StackOverflow
    ELSE IF ty.k = "Infer" /\ subs[ty.var + 1] = ty THEN TyPanic
    ELSE IF ty.k = "Infer" THEN infer_shallow(subs, subs[ty.var + 1], stack - 1)
    ELSE Resolved(ty)

RECURSIVE infer_deep(_, _, _)
infer_deep(subs, ty, stack) ==
    IF stack = 0 THEN StackOverflow
    ELSE With([shallow \in {infer_shallow(subs, ty, stack)} |->
           IF shallow.r = "ty" /\ shallow.ty.k = "Array"
           THEN With([of \in {infer_deep(subs, shallow.ty.of, stack - 1)} |->
                  IF of.r = "ty" THEN Resolved(TArray(of.ty)) ELSE of])
           ELSE shallow])

RECURSIVE try_eq(_, _, _, _), insert_inner(_, _, _, _, _), try_eq_each(_, _, _, _, _)
try_eq(subs, lhs, rhs, stack) ==
    IF stack = 0 THEN U(subs, StackOverflow)
    ELSE CASE lhs.k = "Infer" /\ rhs.k = "Infer" /\ lhs.var = rhs.var -> U(subs, TyOk)
           [] lhs.k = "Infer" /\ ~(rhs.k = "Infer" /\ lhs.var = rhs.var) ->
                insert_inner(subs, lhs.var, rhs, TRUE, stack - 1)
           [] lhs.k # "Infer" /\ rhs.k = "Infer" ->
                insert_inner(subs, rhs.var, lhs, FALSE, stack - 1)
           [] lhs.k = "Array" /\ rhs.k = "Array" -> try_eq(subs, lhs.of, rhs.of, stack - 1)
           [] lhs.k = "Function" /\ rhs.k = "Function" ->
                IF Len(lhs.params) # Len(rhs.params) THEN U(subs, TyPanic)
                ELSE With([each \in {try_eq_each(subs, lhs.params, rhs.params, 1, stack - 1)} |->
                       IF each.res # TyOk THEN each
                       ELSE try_eq(each.subs, lhs.ret, rhs.ret, stack - 1)])
           [] OTHER -> IF lhs = rhs THEN U(subs, TyOk) ELSE U(subs, TyErr(lhs, rhs))

\* lhs.params.iter().zip(&rhs.params).try_for_each(|(l, r)| self.try_eq(l, r))
try_eq_each(subs, ls, rs, i, stack) ==
    IF i > Len(ls) THEN U(subs, TyOk)
    ELSE With([one \in {try_eq(subs, ls[i], rs[i], stack)} |->
           IF one.res # TyOk THEN one
           ELSE try_eq_each(one.subs, ls, rs, i + 1, stack)])

insert_inner(subs, var, ty, is_left, stack) ==
    IF stack = 0 THEN U(subs, StackOverflow)
    ELSE IF var < Len(subs)
    THEN With([sub \in {subs[var + 1]} |->
         With([set \in {IF sub = TInfer(var) THEN [subs EXCEPT ![var + 1] = ty] ELSE subs} |->
           IF is_left THEN try_eq(set, sub, ty, stack - 1)
           ELSE try_eq(set, ty, sub, stack - 1)])])
    ELSE \* subs.get(var) is None: the assert!(!occurs_in(..)) fails or the
         \* write of subs[var] is out of bounds
         U(subs, TyPanic)

subtype(subs, lhs, rhs, stack) ==
    With([eq \in {try_eq(subs, lhs, rhs, stack)} |->
      IF eq.res.r # "Err" THEN U(eq.subs, IF eq.res.r = "Ok" THEN TyOk ELSE eq.res)
      ELSE IF is_never(eq.res.tys[1]) THEN U(eq.subs, TyOk)
      ELSE eq])

\* the types handed to the calls: scalars, the variables made so far,
\* arrays and functions of one parameter over them
MaxVids == 2

TyScalars == {TInt, TBool, TNever}
TyVars(n) == {TInfer(v) : v \in 0..(n - 1)}
Tys(n) ==
    TyScalars \union TyVars(n)
    \union {TArray(of) : of \in {TInt} \union TyVars(n)}
    \union {TFunction(<<param>>, TInt) : param \in {TInt} \union TyVars(n)}

TyLive == phase = "ty" /\ tcx.returned.r \notin {"panic", "overflow"}

\* TyCtx::new_vid
NewVid ==
    /\ TyLive
    /\ Len(tcx.subs) < MaxVids
    /\ tcx' = [subs |-> Append(tcx.subs, TInfer(Len(tcx.subs))),
               call |-> TyCall("new_vid", <<>>),
               returned |-> Vid(Len(tcx.subs))]
    /\ UNCHANGED <<eval, parser, hir, mir, phase, frames, heap, out, ret, steps>>

\* TyCtx::try_eq
TryEq ==
    /\ TyLive
    /\ \E lhs, rhs \in Tys(Len(tcx.subs)) :
       \E eq \in {try_eq(tcx.subs, lhs, rhs, MaxStack)} :
           tcx' = [subs |-> eq.subs, call |-> TyCall("try_eq", <<lhs, rhs>>),
                   returned |-> eq.res]
    /\ UNCHANGED <<eval, parser, hir, mir, phase, frames, heap, out, ret, steps>>

\* TyCtx::try_subtype
TrySubtype ==
    /\ TyLive
    /\ \E lhs, rhs \in Tys(Len(tcx.subs)) :
       \E sub \in {subtype(tcx.subs, lhs, rhs, MaxStack)} :
           tcx' = [subs |-> sub.subs, call |-> TyCall("try_subtype", <<lhs, rhs>>),
                   returned |-> sub.res]
    /\ UNCHANGED <<eval, parser, hir, mir, phase, frames, heap, out, ret, steps>>

\* TyCtx::infer_shallow
InferShallow ==
    /\ TyLive
    /\ \E ty \in Tys(Len(tcx.subs)) :
           tcx' = [tcx EXCEPT !.call = TyCall("infer_shallow", <<ty>>),
                              !.returned = infer_shallow(tcx.subs, ty, MaxStack)]
    /\ UNCHANGED <<eval, parser, hir, mir, phase, frames, heap, out, ret, steps>>

\* TyCtx::infer_deep
InferDeep ==
    /\ TyLive
    /\ \E ty \in Tys(Len(tcx.subs)) :
           tcx' = [tcx EXCEPT !.call = TyCall("infer_deep", <<ty>>),
                              !.returned = infer_deep(tcx.subs, ty, MaxStack)]
    /\ UNCHANGED <<eval, parser, hir, mir, phase, frames, heap, out, ret, steps>>

(***************************************************************************)
(* One evaluation of BinaryOp::IntRange or IntRangeInclusive by             *)
(* Interpreter::rvalue on two integers, in a build with or without         *)
(* overflow checks.  eval.value is None before the evaluation and          *)
(* Some(outcome) after it.                                                 *)
(***************************************************************************)
NoEval == [op |-> "none", lhs |-> 0, rhs |-> 0, overflow_checks |-> TRUE, value |-> None]

RangePanicked == [k |-> "panic"]

\* the integers at the ends of i64 and around zero
I64s == {I64Min, I64Min + 1, 0 - 1, 0, 1, I64Max - 1, I64Max}

EvalIntRange ==
    /\ phase = "eval"
    /\ eval.value = None
    /\ eval.op = "IntRange"
    /\ eval' = [eval EXCEPT !.value = Some(int_range(eval.lhs, eval.rhs))]
    /\ UNCHANGED <<tcx, parser, hir, mir, phase, frames, heap, out, ret, steps>>

EvalIntRangeInclusive ==
    /\ phase = "eval"
    /\ eval.value = None
    /\ eval.op = "IntRangeInclusive"
    /\ \E range \in {int_range_inclusive(eval.lhs, eval.rhs, eval.overflow_checks)} :
         eval' = [eval EXCEPT !.value = IF range = None THEN Some(RangePanicked) ELSE range]
    /\ UNCHANGED <<tcx, parser, hir, mir, phase, frames, heap, out, ret, steps>>

InitWith(programs) ==
    /\ hir \in programs
    /\ mir = NoMir
    /\ phase = "hir"
    /\ frames = <<>>
    /\ heap = <<>>
    /\ out = <<>>
    /\ ret = None
    /\ steps = 0
    /\ parser = NoParser
    /\ tcx = NoTcx
    /\ eval = NoEval

(***************************************************************************)
(* AST->HIR lowering of while loops and blocks (src/src/ast_lowering).     *)
(* A source block is [stmts, is_expr]; a source while loop is a node of    *)
(* kind "While"; every other node is taken in its lowered form.            *)
(***************************************************************************)
AstBlock(stmts, is_expr) == [stmts |-> stmts, is_expr |-> is_expr]
AstWhile(condition, body) ==
    [kind |-> "While", ty |-> TUnit, condition |-> condition, body |-> body]
\* ast::Expr::Block, with the type the analysis gives it
AstBlockExpr(stmts, is_expr) ==
    [kind |-> "AstBlock",
     ty |-> IF is_expr THEN stmts[Len(stmts)].ty ELSE TUnit,
     block |-> AstBlock(stmts, is_expr)]

\* a block that is never given a terminating unit
block_never_needs_terminating_unit(block) == FALSE

block_needs_terminating_unit(block) ==
    IF block.is_expr THEN FALSE
    ELSE block.stmts # <<>> /\ block.stmts[Len(block.stmts)].ty # TUnit

RECURSIVE lower_ast(_), lower_block_inner(_), lower_while_loop(_, _),
          lower_while_loop_test_last(_, _), lower_block(_)

lower_block_inner(block) ==
    LET block_ty == IF block.is_expr THEN block.stmts[Len(block.stmts)].ty ELSE TUnit
        new == [i \in 1..Len(block.stmts) |-> lower_ast(block.stmts[i])]
    IN  [ty |-> block_ty,
         exprs |-> IF block_needs_terminating_unit(block) THEN Append(new, HUnit) ELSE new]

lower_block(block) ==
    HBlock(lower_block_inner(block).ty, lower_block_inner(block).exprs)

\* a loop that tests its condition after the body
lower_while_loop_test_last(condition, body) ==
    LET not_condition == HUnary(TBool, "Not", lower_ast(condition))
        if_stmt == HIf(TUnit, <<HArm(not_condition, <<HBreak>>)>>, <<>>)
        block == lower_block_inner(body).exprs
    IN  HLoop(block \o <<if_stmt>>)

lower_while_loop(condition, body) ==
    LET not_condition == HUnary(TBool, "Not", lower_ast(condition))
        if_stmt == HIf(TUnit, <<HArm(not_condition, <<HBreak>>)>>, <<>>)
        block == lower_block_inner(body).exprs
    IN  HLoop(<<if_stmt>> \o block)

\* AstLowering::lower on a while loop; the function body of a declaration
\* is lowered as a block that is not an expression
lower_ast(e) ==
    CASE e.kind = "While" -> lower_while_loop(e.condition, e.body)
      [] e.kind = "AstBlock" -> lower_block(e.block)
      [] e.kind = "Let" -> [e EXCEPT !.expr = lower_ast(e.expr)]
      [] e.kind = "FnDecl" ->
           [e EXCEPT !.body = lower_block_inner(AstBlock(e.body, FALSE)).exprs]
      [] OTHER -> e

lower_program(root) == [i \in 1..Len(root) |-> lower_ast(root[i])]

(***************************************************************************)
(* The meaning of a HIR program as the claims state it: a big-step         *)
(* evaluation of the expression tree with short-circuit and/or, if/else    *)
(* chains tried in source order, break leaving the innermost loop, return  *)
(* leaving the function.  m is [env, out, ctl, val, fuel]: the scope       *)
(* stack, stdout, "normal" | "break" | "return" | "abort" | "diverge",     *)
(* the value of the expression, and the loop iterations still allowed.     *)
(***************************************************************************)
MaxIterations == 40

RECURSIVE lookup(_, _, _)
lookup(env, i, ident) ==
    IF i = 0 THEN VUnit
    ELSE IF ident \in DOMAIN env[i] THEN env[i][ident]
    ELSE lookup(env, i - 1, ident)

RECURSIVE update(_, _, _, _)
update(env, i, ident, value) ==
    IF i = 0 THEN env
    ELSE IF ident \in DOMAIN env[i] THEN [env EXCEPT ![i] = Put(@, ident, value)]
    ELSE update(env, i - 1, ident, value)

Arith(op, a, b) ==
    CASE op = "Add" -> VInt(a + b)
      [] op = "Sub" -> VInt(a - b)
      [] op = "Mul" -> VInt(a * b)
      [] op = "Less" -> VBool(a < b)
      [] op = "Greater" -> VBool(a > b)
      [] op = "LessEq" -> VBool(a <= b)
      [] op = "GreaterEq" -> VBool(a >= b)
      [] op = "Eq" -> VBool(a = b)
      [] op = "Neq" -> VBool(a # b)

RECURSIVE Eval(_, _), EvalSeq(_, _, _), EvalArms(_, _, _), EvalLoop(_, _), EvalWhile(_, _)

\* the expressions of a sequence in order, stopping when control leaves it
EvalSeq(m, exprs, i) ==
    IF i > Len(exprs) \/ m.ctl # "normal" THEN m
    ELSE EvalSeq(Eval(m, exprs[i]), exprs, i + 1)

EvalBlock(m, exprs) ==
    LET inner == EvalSeq([m EXCEPT !.env = Append(@, EmptyMap), !.val = VUnit], exprs, 1)
    IN  [inner EXCEPT !.env = SubSeq(@, 1, Len(@) - 1)]

EvalArms(m, e, i) ==
    IF i > Len(e.arms) THEN EvalBlock(m, e.els)
    ELSE LET c == Eval(m, e.arms[i].condition)
         IN  IF c.ctl # "normal" THEN c
             ELSE IF c.val.v THEN EvalBlock(c, e.arms[i].body)
             ELSE EvalArms(c, e, i + 1)

EvalLoop(m, e) ==
    IF m.fuel = 0 THEN [m EXCEPT !.ctl = "diverge"]
    ELSE LET b == EvalSeq([m EXCEPT !.fuel = @ - 1], e.block, 1)
         IN  IF b.ctl = "break" THEN [b EXCEPT !.ctl = "normal", !.val = VUnit]
             ELSE IF b.ctl = "normal" THEN EvalLoop(b, e)
             ELSE b

\* a source while loop: the condition before every iteration
EvalWhile(m, e) ==
    IF m.fuel = 0 THEN [m EXCEPT !.ctl = "diverge"]
    ELSE LET c == Eval([m EXCEPT !.fuel = @ - 1], e.condition)
             b == EvalBlock(c, e.body.stmts)
         IN  IF c.ctl # "normal" THEN c
             ELSE IF ~c.val.v THEN [c EXCEPT !.val = VUnit]
             ELSE IF b.ctl = "break" THEN [b EXCEPT !.ctl = "normal", !.val = VUnit]
             ELSE IF b.ctl = "normal" THEN EvalWhile(b, e)
             ELSE b

Eval(m, e) ==
    CASE e.kind = "Literal" ->
           [m EXCEPT !.val = IF e.lit.l = "Unit" THEN VUnit
                              ELSE IF e.lit.l = "Bool" THEN VBool(e.lit.v)
                              ELSE IF e.lit.l = "Int" THEN VInt(e.lit.v)
                              ELSE VStr(e.lit.v)]
      [] e.kind = "PrintStr" -> [m EXCEPT !.out = Append(@, e.str), !.val = VUnit]
      [] e.kind = "Block" -> EvalBlock(m, e.exprs)
      [] e.kind = "Binary" /\ e.op \in {"And", "Or"} ->
           LET l == Eval(m, e.lhs)
           IN  IF l.ctl # "normal" THEN l
               ELSE IF l.val.v = (e.op = "And") THEN Eval(l, e.rhs)
               ELSE l
      [] e.kind = "Binary" /\ e.op \notin {"And", "Or"} ->
           LET l == Eval(m, e.lhs)
               r == Eval(l, e.rhs)
           IN  IF l.ctl # "normal" THEN l
               ELSE IF r.ctl # "normal" THEN r
               ELSE [r EXCEPT !.val = Arith(e.op, l.val.v, r.val.v)]
      [] e.kind = "Unary" ->
           LET x == Eval(m, e.expr)
           IN  IF x.ctl # "normal" THEN x
               ELSE [x EXCEPT !.val = IF e.op = "Not" THEN VBool(~x.val.v)
                                      ELSE VInt(-x.val.v)]
      [] e.kind = "If" ->
           LET r == EvalArms(m, e, 1)
           IN  IF r.ctl = "normal" /\ is_unit(e.ty) THEN [r EXCEPT !.val = VUnit] ELSE r
      [] e.kind = "Loop" -> EvalLoop(m, e)
      [] e.kind = "While" -> EvalWhile(m, e)
      [] e.kind = "Break" -> [m EXCEPT !.ctl = "break"]
      [] e.kind = "Return" ->
           LET x == Eval(m, e.expr)
           IN  IF x.ctl # "normal" THEN x ELSE [x EXCEPT !.ctl = "return"]
      [] e.kind = "Abort" -> [m EXCEPT !.ctl = "abort"]
      [] e.kind = "Let" ->
           LET x == Eval(m, e.expr)
           IN  IF x.ctl # "normal" THEN x
               ELSE [x EXCEPT !.env[Len(x.env)] = Put(@, e.ident, x.val), !.val = VUnit]
      [] e.kind = "Assignment" ->
           LET x == Eval(m, e.expr)
           IN  IF x.ctl # "normal" THEN x
               ELSE [x EXCEPT !.env = update(@, Len(@), e.lhs.ident, x.val), !.val = VUnit]
      [] e.kind = "Ident" -> [m EXCEPT !.val = lookup(m.env, Len(m.env), e.ident)]
      [] e.kind = "FnCall" ->
           LET x == Eval(m, e.args[1])
               text == IF x.val.k = "Int" THEN int_to_string(x.val.v)
                       ELSE IF x.val.k = "Bool" THEN bool_to_string(x.val.v)
                       ELSE x.val.v
           IN  IF x.ctl # "normal" THEN x
               ELSE [x EXCEPT !.out = Append(@, text), !.val = VUnit]
      [] e.kind = "FnDecl" -> [m EXCEPT !.val = VUnit]

\* the declaration the name `main` denotes at the end of the root sequence
RECURSIVE main_decl(_, _)
main_decl(root, i) ==
    IF i = 0 THEN None
    ELSE IF root[i].kind = "FnDecl" /\ root[i].ident = "main" THEN Some(root[i])
    ELSE main_decl(root, i - 1)

\* the meaning of running the program: stdout, the outcome and main's value
Meaning(root) ==
    LET main == main_decl(root, Len(root))
        m0 == [env |-> <<EmptyMap>>, out |-> <<>>, ctl |-> "normal", val |-> VUnit,
               fuel |-> MaxIterations]
        m == EvalSeq(m0, main[1].body, 1)
    IN  IF main = None THEN [out |-> <<>>, ctl |-> "normal", val |-> None]
        ELSE [out |-> m.out,
              ctl |-> IF m.ctl = "return" THEN "normal" ELSE m.ctl,
              val |-> IF m.ctl \in {"normal", "return"} THEN Some(m.val) ELSE None]

(***************************************************************************)
(* Programs.  Every program starts with the declarations of the print      *)
(* intrinsics, as the standard prelude does.                               *)
(***************************************************************************)
Param(ident, ty) == [ident |-> ident, ty |-> ty]

Prelude ==
    << HFnDecl("print", <<Param("s", TStr)>>, <<>>),
       HFnDecl("print_int", <<Param("i", TInt)>>, <<>>),
       HFnDecl("print_bool", <<Param("b", TBool)>>, <<>>) >>

print_int(e) == HFnCall(TUnit, HIdent(TFn, "print_int"), <<e>>)
print_bool(e) == HFnCall(TUnit, HIdent(TFn, "print_bool"), <<e>>)
print(e) == HFnCall(TUnit, HIdent(TFn, "print"), <<e>>)

Main(body) == Prelude \o <<HFnDecl("main", <<>>, body)>>

\* a boolean operand whose evaluation is visible on stdout
Atom(name, b) == HBlock(TBool, <<HPrintStr(<<name>>), HBool(b)>>)

Point == TStruct(0, <<TInt, TInt>>)

\* counting loop, struct formatting and abort: three complete programs
CountToThree ==
    Main(<< HLet("x", HInt(0)),
            HLoop(<< HIf(TUnit,
                         <<HArm(HUnary(TBool, "Not",
                                       HBinary(TBool, HIdent(TInt, "x"), "Less", HInt(3))),
                                <<HBreak>>)>>, <<>>),
                     print_int(HIdent(TInt, "x")),
                     HAssignment(HIdent(TInt, "x"),
                                 HBinary(TInt, HIdent(TInt, "x"), "Add", HInt(1))),
                     HUnit >>),
            HUnit >>)

PrintPoint ==
    Prelude \o
    << HFnDecl("P", <<Param("a", TInt), Param("b", TInt)>>, <<HStructInit(Point)>>),
       HFnDecl("main", <<>>,
               << HLet("p", HFnCall(Point, HIdent(TFn, "P"), <<HInt(1), HInt(2)>>)),
                  print(HFStr(<<HIdent(Point, "p")>>)),
                  HUnit >>) >>

AbortOnFalse ==
    Main(<< HIf(TUnit,
                <<HArm(HUnary(TBool, "Not", HBinary(TBool, HInt(1), "Eq", HInt(2))),
                       <<HPrintStr(<<"f">>), HAbort>>)>>, <<>>),
            HUnit >>)

Scenarios == {CountToThree, PrintPoint, AbortOnFalse}

\* and/or expressions with exactly n operators; the atoms are named by their
\* position from the left, starting at `first`
MaxOps == 2
Names == <<"a", "b", "c", "d", "e", "f">>

RECURSIVE LogicExprs(_, _)
LogicExprs(n, first) ==
    IF n = 0 THEN {Atom(Names[first], b) : b \in BOOLEAN}
    ELSE UNION {{HBinary(TBool, l, op, r) :
                   l \in LogicExprs(k, first),
                   op \in {"And", "Or"},
                   r \in LogicExprs(n - 1 - k, first + k + 1)} : k \in 0..(n - 1)}

LogicCases == UNION {LogicExprs(n, 1) : n \in 0..MaxOps}

\* the value of the expression is needed: it is stored and printed
LogicValue(e) == Main(<<HLet("r", e), print_bool(HIdent(TBool, "r")), HUnit>>)
\* the expression is the condition of an if
LogicBranch(e) ==
    Main(<< HIf(TUnit, <<HArm(e, <<HPrintStr(<<"t">>)>>)>>, <<HPrintStr(<<"f">>)>>),
            HUnit >>)

LogicPrograms == {LogicValue(e) : e \in LogicCases} \union {LogicBranch(e) : e \in LogicCases}

\* if/else chains of 1..MaxArms arms: cond[i] is the value of the i-th
\* condition, ret[i] tells whether the i-th body returns, els whether the
\* chain has an else block
MaxArms == 3
Tags == <<"1", "2", "3", "4", "5", "6">>

IfCases ==
    UNION {[cond : [1..n -> BOOLEAN], ret : [1..n -> BOOLEAN], els : BOOLEAN] :
             n \in 1..MaxArms}

IfChain(c) ==
    HIf(TUnit,
        [i \in DOMAIN c.cond |->
           HArm(Atom(Names[i], c.cond[i]),
                IF c.ret[i] THEN <<HPrintStr(<<Tags[i]>>), HReturn(HUnit), HUnit>>
                ELSE <<HPrintStr(<<Tags[i]>>)>>)],
        IF c.els THEN <<HPrintStr(<<"e">>)>> ELSE <<>>)

IfStatement(c) == Main(<<IfChain(c), HPrintStr(<<"z">>), HUnit>>)

\* the chain as an expression: every arm and the else block yield an integer
IfValue(cond) ==
    Main(<< HLet("v", HIf(TInt,
                          [i \in DOMAIN cond |->
                             HArm(Atom(Names[i], cond[i]), <<HPrintStr(<<Tags[i]>>), HInt(i)>>)],
                          <<HInt(0)>>)),
            print_int(HIdent(TInt, "v")),
            HUnit >>)

IfStatements == {IfStatement(c) : c \in IfCases}
IfValues == UNION {{IfValue(cond) : cond \in [1..n -> BOOLEAN]} : n \in 1..MaxArms}

IfPrograms == IfStatements \union IfValues

\* loops nested up to MaxNest deep; every loop prints its depth, runs an
\* optional inner loop and leaves through a break placed directly in its body,
\* in an arm of an if, or in the else block of an if
MaxNest == 2

Exits ==
    {<<HBreak>>}
    \union {<< HIf(TUnit, <<HArm(Atom("c", b), <<HBreak>>)>>, <<>>),
               HPrintStr(<<"n">>), HBreak >> : b \in BOOLEAN}
    \union {<< HIf(TUnit, <<HArm(Atom("c", b), <<HPrintStr(<<"y">>)>>)>>, <<HBreak>>),
               HPrintStr(<<"n">>), HBreak >> : b \in BOOLEAN}

\* what precedes an inner loop in the body of the outer one: nothing, or a
\* break of the outer loop
Befores ==
    {<<>>} \union {<<HIf(TUnit, <<HArm(Atom("p", b), <<HBreak>>)>>, <<>>)>> : b \in BOOLEAN}

RECURSIVE LoopNest(_)
LoopNest(d) ==
    {HLoop(<<HPrintStr(<<Tags[d]>>)>> \o inner \o exit \o <<HUnit>>) :
       inner \in {<<>>} \union (IF d > 1
                                THEN {before \o <<l, HPrintStr(<<"i">>)>> :
                                        before \in Befores, l \in LoopNest(d - 1)}
                                ELSE {}),
       exit \in Exits}

\* a loop leaving after n further iterations, around an optional inner loop
Counted(n, inner) ==
    << HLet("i", HInt(0)),
       HLoop(<<HPrintStr(<<"o">>)>> \o inner \o
             << HIf(TUnit,
                    <<HArm(HBinary(TBool, HIdent(TInt, "i"), "GreaterEq", HInt(n)),
                           <<HBreak>>)>>, <<>>),
                HAssignment(HIdent(TInt, "i"), HBinary(TInt, HIdent(TInt, "i"), "Add", HInt(1))),
                HUnit >>) >>

LoopPrograms ==
    {Main(<<l, HPrintStr(<<"z">>), HUnit>>) : l \in LoopNest(MaxNest)}
    \union {Main(Counted(n, inner) \o <<HPrintStr(<<"z">>), HUnit>>) :
              n \in 0..1, inner \in {<<>>} \union {<<l>> : l \in LoopNest(1)}}

\* source programs with while loops running 0..MaxCount times: the condition
\* prints "c" each time it is evaluated
MaxCount == 3

Counter(v, n) == HBlock(TBool, <<HPrintStr(<<"c">>), HBinary(TBool, HIdent(TInt, v), "Less", HInt(n))>>)
Increment(v) == HAssignment(HIdent(TInt, v), HBinary(TInt, HIdent(TInt, v), "Add", HInt(1)))

WhileBodies ==
    {AstBlock(<<print_int(HIdent(TInt, "i")), Increment("i")>>, FALSE),
     AstBlock(<<Increment("i"), HIdent(TInt, "i")>>, FALSE)}
    \union {AstBlock(<< HIf(TUnit,
                            <<HArm(HBinary(TBool, HIdent(TInt, "i"), "Eq", HInt(k)),
                                   <<HBreak>>)>>, <<>>),
                        HPrintStr(<<"b">>), Increment("i") >>, FALSE) : k \in 0..MaxCount}
    \union {AstBlock(<< HLet("j", HInt(0)),
                        AstWhile(HBinary(TBool, HIdent(TInt, "j"), "Less", HInt(m)),
                                 AstBlock(<<HPrintStr(<<"j">>), Increment("j")>>, FALSE)),
                        Increment("i") >>, FALSE) : m \in 0..MaxCount}

WhileSources ==
    {Main(<< HLet("i", HInt(0)), AstWhile(Counter("i", n), body), HPrintStr(<<"z">>), HUnit >>) :
       n \in 0..MaxCount, body \in WhileBodies}

WhilePrograms == {lower_program(src) : src \in WhileSources}

\* struct values formatted inside f-strings: the formatter of a struct is
\* synthesized while the body containing the f-string is being lowered
Empty == TStruct(1, <<>>)
Flag == TStruct(2, <<TBool>>)
Line == TStruct(3, <<Point, Point>>)
Wrap == TStruct(4, <<TRef(Point), TInt>>)

Ctor(name, ty, params) == HFnDecl(name, params, <<HStructInit(ty)>>)

Ctors ==
    << Ctor("Empty", Empty, <<>>),
       Ctor("Flag", Flag, <<Param("b", TBool)>>),
       Ctor("P", Point, <<Param("a", TInt), Param("b", TInt)>>),
       Ctor("Line", Line, <<Param("a", Point), Param("b", Point)>>),
       Ctor("Wrap", Wrap, <<Param("p", TRef(Point)), Param("n", TInt)>>) >>

MakePoint(x, y) == HFnCall(Point, HIdent(TFn, "P"), <<HInt(x), HInt(y)>>)

\* the statements binding s to a value of each struct type
StructValues ==
    { <<HLet("s", HFnCall(Empty, HIdent(TFn, "Empty"), <<>>))>>,
      <<HLet("s", HFnCall(Flag, HIdent(TFn, "Flag"), <<HBool(TRUE)>>))>>,
      <<HLet("s", MakePoint(1, 2))>>,
      <<HLet("s", HFnCall(Line, HIdent(TFn, "Line"), <<MakePoint(1, 2), MakePoint(3, 4)>>))>>,
      << HLet("q", MakePoint(5, 6)),
         HLet("s", HFnCall(Wrap, HIdent(TFn, "Wrap"),
                           <<HUnary(TRef(Point), "Ref", HIdent(Point, "q")), HInt(7)>>)) >> }

TypeOfLet(binding) == binding[Len(binding)].expr.ty
Formatted(binding) == HIdent(TypeOfLet(binding), "s")
Sum(a, b) == HBinary(TInt, a, "Add", b)

\* the statements of main that are pending when the formatter is synthesized
Interrupted(binding) == binding \o <<HLet("n", Sum(HInt(1), HInt(2)))>>

MidBody(binding) ==
    Interrupted(binding) \o
    << print(HFStr(<<HString(<<"x">>), Formatted(binding), HIdent(TInt, "n")>>)),
       HLet("m", Sum(HIdent(TInt, "n"), HInt(1))),
       print_int(HIdent(TInt, "m")), HUnit >>

FormatSites(binding) ==
    { MidBody(binding),
      binding \o << HIf(TUnit, <<HArm(Atom("a", TRUE),
                                      <<print(HFStr(<<Formatted(binding)>>))>>)>>, <<>>),
                    HUnit >>,
      binding \o << HLoop(<<print(HFStr(<<Formatted(binding)>>)), HBreak, HUnit>>), HUnit >>,
      binding \o << print(HFStr(<<Formatted(binding)>>)),
                    print(HFStr(<<Formatted(binding), HString(<<"-">>), Formatted(binding)>>)),
                    HUnit >>,
      binding \o << HLet("r", HUnary(TRef(TypeOfLet(binding)), "Ref", Formatted(binding))),
                    print(HFStr(<<HIdent(TRef(TypeOfLet(binding)), "r")>>)), HUnit >> }

StructMain(body) == Prelude \o Ctors \o <<HFnDecl("main", <<>>, body)>>

StructPrograms ==
    UNION {{StructMain(body) : body \in FormatSites(binding)} : binding \in StructValues}

\* calls of functions of 0, 1 and 2 parameters, 1..MaxCalls of them in main
MaxCalls == 2

Functions ==
    << HFnDecl("zero", <<>>, <<HPrintStr(<<"0">>), HUnit>>),
       HFnDecl("one", <<Param("a", TInt)>>, <<print_int(HIdent(TInt, "a")), HUnit>>),
       HFnDecl("two", <<Param("a", TInt), Param("b", TInt)>>,
               <<Sum(HIdent(TInt, "a"), HIdent(TInt, "b"))>>),
       Ctor("P", Point, <<Param("a", TInt), Param("b", TInt)>>) >>

CallTwo(a, b) == HFnCall(TInt, HIdent(TFn, "two"), <<a, b>>)

CallStatements ==
    { HFnCall(TUnit, HIdent(TFn, "zero"), <<>>),
      HFnCall(TUnit, HIdent(TFn, "one"), <<HInt(1)>>),
      HFnCall(TUnit, HIdent(TFn, "one"), <<CallTwo(HInt(1), HInt(2))>>),
      print_int(CallTwo(CallTwo(HInt(1), HInt(2)), HInt(3))),
      print(HFStr(<<MakePoint(1, 2)>>)) }

CallPrograms ==
    UNION {{Prelude \o Functions \o <<HFnDecl("main", <<>>, [i \in 1..n |-> calls[i]] \o <<HUnit>>)>> :
              calls \in [1..n -> CallStatements]} : n \in 1..MaxCalls}

\* top-level declarations in every order: functions named main with
\* different bodies, a main nested in another function, a main nested in main
MaxDecls == 2

Says(name, text) == HFnDecl(name, <<>>, <<HPrintStr(<<text>>), HUnit>>)

Decls ==
    { Says("main", "1"),
      Says("main", "2"),
      Says("f", "6"),
      HFnDecl("f", <<>>, <<Says("main", "3"), HUnit>>),
      HFnDecl("main", <<>>, <<Says("main", "4"), HPrintStr(<<"5">>), HUnit>>) }

MainPrograms ==
    UNION {{Prelude \o [i \in 1..n |-> decls[i]] : decls \in [1..n -> Decls]} : n \in 0..MaxDecls}

\* arrays indexed by a literal, by a variable and by a computed index,
\* directly and through a reference, read and assigned
Ints == TArray(TInt)

ArrayLits ==
    { HArray(Ints, <<ArraySeg(HInt(1), None), ArraySeg(HInt(2), None), ArraySeg(HInt(3), None)>>),
      HArray(Ints, <<ArraySeg(HInt(4), Some(HInt(2)))>>),
      HArray(Ints, <<ArraySeg(HInt(5), None), ArraySeg(HInt(6), Some(HIdent(TInt, "n")))>>) }

Indexes == {HInt(1), HIdent(TInt, "i"), Sum(HIdent(TInt, "i"), HInt(1))}

\* an array value to read from, and the place expression of the same array
Arrays ==
    { <<HIdent(Ints, "a"), HIdent(Ints, "a")>>,
      <<HIdent(TRef(Ints), "r"), HUnary(Ints, "Deref", HIdent(TRef(Ints), "r"))>>,
      <<HIdent(TRef(TRef(Ints)), "rr"),
        HUnary(Ints, "Deref", HUnary(TRef(Ints), "Deref", HIdent(TRef(TRef(Ints)), "rr")))>> }

ArrayUses(array, index) ==
    { << print_int(HIndex(TInt, array[1], index)), HUnit >>,
      << HAssignment(HIndex(TInt, array[2], index), HInt(7)),
         print_int(HIndex(TInt, HIdent(Ints, "a"), index)), HUnit >>,
      << HLet("e", HUnary(TRef(TInt), "Ref", HIndex(TInt, array[2], index))),
         HAssignment(HUnary(TInt, "Deref", HIdent(TRef(TInt), "e")), HInt(8)),
         print_int(HIndex(TInt, array[1], HInt(0))),
         print_int(HIndex(TInt, array[1], HInt(1))), HUnit >> }

ArrayPrograms ==
    UNION {UNION {UNION {
      { Main(<< HLet("n", HInt(2)), HLet("i", HInt(0)), HLet("a", lit),
                HLet("r", HUnary(TRef(Ints), "Ref", HIdent(Ints, "a"))),
                HLet("rr", HUnary(TRef(TRef(Ints)), "Ref", HIdent(TRef(Ints), "r"))) >> \o use)
        : use \in ArrayUses(array, index) }
      : index \in Indexes } : array \in Arrays } : lit \in ArrayLits }

\* references and dereferences of places of every kind: main binds an
\* integer, references to it, a struct, a reference to it, a struct holding a
\* reference, an array of integers, an array of references and an index
RefTo(e) == HUnary(TRef(e.ty), "Ref", e)
DerefOf(e) == HUnary(e.ty.of, "Deref", e)

RefSetup ==
    << HLet("x", HInt(1)),
       HLet("r", RefTo(HIdent(TInt, "x"))),
       HLet("rr", RefTo(HIdent(TRef(TInt), "r"))),
       HLet("p", MakePoint(3, 4)),
       HLet("rp", RefTo(HIdent(Point, "p"))),
       HLet("w", HFnCall(Wrap, HIdent(TFn, "Wrap"), <<RefTo(HIdent(Point, "p")), HInt(7)>>)),
       HLet("a", HArray(Ints, <<ArraySeg(HInt(5), None), ArraySeg(HInt(6), None)>>)),
       HLet("ar", HArray(TArray(TRef(TInt)),
                         <<ArraySeg(HIdent(TRef(TInt), "r"), None),
                           ArraySeg(HIdent(TRef(TInt), "r"), None)>>)),
       HLet("i", HInt(0)) >>

\* place expressions of reference type, each with a value that can be assigned to it
RefPlaces ==
    { <<HIdent(TRef(TInt), "r"), RefTo(HIdent(TInt, "x"))>>,
      <<DerefOf(HIdent(TRef(TRef(TInt)), "rr")), RefTo(HIdent(TInt, "x"))>>,
      <<HField(TRef(Point), HIdent(Wrap, "w"), 0), RefTo(HIdent(Point, "p"))>>,
      <<HIndex(TRef(TInt), HIdent(TArray(TRef(TInt)), "ar"), HIdent(TInt, "i")),
        RefTo(HIdent(TInt, "x"))>> }

\* place expressions that are no dereference, each with a value that can be assigned to it
PlainPlaces ==
    { <<HIdent(TInt, "x"), HInt(9)>>,
      <<HIdent(TRef(TInt), "r"), RefTo(HIdent(TInt, "x"))>>,
      <<HIdent(Point, "p"), MakePoint(8, 9)>>,
      <<HIdent(Wrap, "w"),
        HFnCall(Wrap, HIdent(TFn, "Wrap"), <<RefTo(HIdent(Point, "p")), HInt(8)>>)>>,
      <<HIdent(Ints, "a"), HIdent(Ints, "a")>>,
      <<HField(TInt, HIdent(Point, "p"), 1), HInt(9)>>,
      <<HField(TInt, DerefOf(HIdent(TRef(Point), "rp")), 0), HInt(9)>>,
      <<HIndex(TInt, HIdent(Ints, "a"), HIdent(TInt, "i")), HInt(9)>>,
      <<HIndex(TInt, HIdent(Ints, "a"), HInt(1)), HInt(9)>> }

\* expressions that are no place: a reference of one is a reference of a fresh local
Temporaries == {HInt(5), RefTo(HIdent(TInt, "x"))}

RefProgram(target) == StructMain(RefSetup \o <<HLet("q", RefTo(target)), HUnit>>)
AssignProgram(place) == StructMain(RefSetup \o <<HAssignment(place[1], place[2]), HUnit>>)

\* `let q = *&e`
DerefOfRefProgram(target) == StructMain(RefSetup \o <<HLet("q", DerefOf(RefTo(target))), HUnit>>)

\* `let t = &e; let v = *t; let u = e`
StoredRefProgram(target) ==
    StructMain(RefSetup \o <<HLet("t", RefTo(target)),
                             HLet("v", DerefOf(HIdent(TRef(target.ty), "t"))),
                             HLet("u", target),
                             HUnit>>)

RefPrograms ==
    {DerefOfRefProgram(place[1]) : place \in PlainPlaces}
    \union {StoredRefProgram(place[1]) : place \in PlainPlaces}
    \union
    {RefProgram(DerefOf(place[1])) : place \in RefPlaces}
    \union {RefProgram(place[1]) : place \in PlainPlaces}
    \union {RefProgram(e) : e \in Temporaries}
    \union {RefProgram(DerefOf(RefTo(HIdent(TInt, "x"))))}
    \union {AssignProgram(place) : place \in RefPlaces \union PlainPlaces}
    \union {StructMain(RefSetup \o <<HUnit>>)}

\* source blocks bound by a let: with and without a trailing expression,
\* ending in statements of unit and of other types, blocks included
BlockLasts ==
    { HInt(5),
      Sum(HIdent(TInt, "i"), HInt(1)),
      HBinary(TBool, HIdent(TInt, "i"), "Less", HInt(1)),
      print_int(HInt(2)),
      AstBlockExpr(<<print_int(HInt(3)), HInt(4)>>, TRUE),
      AstBlockExpr(<<HInt(4)>>, FALSE),
      AstBlockExpr(<<print_int(HInt(3))>>, FALSE) }

BlockPrefixes == {<<>>, <<print_int(HInt(1))>>, <<HInt(7), print_int(HIdent(TInt, "i"))>>}

SourceBlocks ==
    {AstBlock(prefix \o <<last>>, is_expr) :
       prefix \in BlockPrefixes, last \in BlockLasts, is_expr \in BOOLEAN}
    \union {AstBlock(<<>>, FALSE)}

BlockSource(block) ==
    Main(<<HLet("i", HInt(0)), HLet("v", AstBlockExpr(block.stmts, block.is_expr))>>)

BlockPrograms == {lower_program(BlockSource(block)) : block \in SourceBlocks}

\* names bound again in a block, in the arms of an if and in the same
\* scope, read inside and after each of them
Shadows(c) ==
    Main(<< HLet("x", HInt(1)),
            HBlock(TUnit, <<HLet("x", HInt(2)), print_int(HIdent(TInt, "x"))>>),
            print_int(HIdent(TInt, "x")),
            HIf(TUnit,
                <<HArm(HBool(c), <<HLet("x", HInt(3)), print_int(HIdent(TInt, "x"))>>)>>,
                <<HLet("x", HInt(4)), print_int(HIdent(TInt, "x"))>>),
            print_int(HIdent(TInt, "x")),
            HLet("x", HInt(5)),
            print_int(HIdent(TInt, "x")) >>)

ScopePrograms == {Shadows(c) : c \in BOOLEAN}

\* abort in main, in a function main calls and in a function that one
\* calls: alone, in either arm of an if and in a loop, every level printing
\* before and after
MaxDepth == 3
LevelNames == <<"main", "a", "b", "c", "d">>
Entering == <<"1", "2", "3", "4", "5">>
Leaving == <<"9", "8", "7", "6", "5">>

AbortForms ==
    {[stmts |-> <<HAbort>>, reached |-> TRUE, prints |-> <<>>]}
    \union {[stmts |-> <<HIf(TUnit, <<HArm(HBool(c), <<HPrintStr(<<"t">>), HAbort>>)>>,
                             <<HPrintStr(<<"e">>)>>)>>,
             reached |-> c,
             prints |-> IF c THEN <<<<"t">>>> ELSE <<<<"e">>>>] : c \in BOOLEAN}
    \union {[stmts |-> <<HLoop(<<HPrintStr(<<"l">>),
                                 HIf(TUnit, <<HArm(HBool(c), <<HAbort>>)>>, <<>>),
                                 HBreak>>)>>,
             reached |-> c,
             prints |-> <<<<"l">>>>] : c \in BOOLEAN}

AbortBody(level, depth, form) ==
    <<HPrintStr(<<Entering[level]>>)>>
    \o (IF level = depth THEN form.stmts
        ELSE <<HFnCall(TUnit, HIdent(TFn, LevelNames[level + 1]), <<>>)>>)
    \o <<HPrintStr(<<Leaving[level]>>), HUnit>>

AbortProgram(depth, form) ==
    Prelude \o [k \in 1..depth |->
                  HFnDecl(LevelNames[depth - k + 1], <<>>, AbortBody(depth - k + 1, depth, form))]

AbortOutput(depth, form) ==
    [k \in 1..depth |-> <<Entering[k]>>] \o form.prints
    \o (IF form.reached THEN <<>> ELSE [k \in 1..depth |-> <<Leaving[depth - k + 1]>>])

AbortPrograms == {AbortProgram(depth, form) : depth \in 1..MaxDepth, form \in AbortForms}

\* copies of places: `let b = src`, then a write through b, then a read of
\* the same field through the source and through b.  The sources are structs
\* nested up to three deep, a struct holding a reference, a field, a
\* dereference, an array and a reference
Deep == TStruct(5, <<Line, Wrap>>)

CopyCtors ==
    Ctors \o <<Ctor("Deep", Deep, <<Param("a", Line), Param("b", Wrap)>>)>>

MakeLine == HFnCall(Line, HIdent(TFn, "Line"), <<MakePoint(1, 2), MakePoint(3, 4)>>)
MakeWrap == HFnCall(Wrap, HIdent(TFn, "Wrap"), <<RefTo(HIdent(Point, "p")), HInt(7)>>)

CopySetup ==
    << HLet("p", MakePoint(1, 2)),
       HLet("l", MakeLine),
       HLet("rl", RefTo(HIdent(Line, "l"))),
       HLet("w", MakeWrap),
       HLet("d", HFnCall(Deep, HIdent(TFn, "Deep"), <<MakeLine, MakeWrap>>)),
       HLet("a", HArray(Ints, <<ArraySeg(HInt(5), None), ArraySeg(HInt(6), None)>>)),
       HLet("x", HInt(1)),
       HLet("r", RefTo(HIdent(TInt, "x"))) >>

\* [src, through_b, through_src, shared, old]: the place copied, the integer
\* written through b, the same integer of the source, whether the copy shares
\* it with the source, and what it held
CopyCase(src, through_b, through_src, shared, old) ==
    [src |-> src, through_b |-> through_b, through_src |-> through_src,
     shared |-> shared, old |-> old]

CopyCases ==
    { CopyCase(HIdent(Point, "p"),
               HField(TInt, HIdent(Point, "b"), 0),
               HField(TInt, HIdent(Point, "p"), 0), FALSE, "1"),
      CopyCase(HIdent(Line, "l"),
               HField(TInt, HField(Point, HIdent(Line, "b"), 1), 0),
               HField(TInt, HField(Point, HIdent(Line, "l"), 1), 0), FALSE, "3"),
      CopyCase(HIdent(Deep, "d"),
               HField(TInt, HField(Point, HField(Line, HIdent(Deep, "b"), 0), 1), 1),
               HField(TInt, HField(Point, HField(Line, HIdent(Deep, "d"), 0), 1), 1),
               FALSE, "4"),
      CopyCase(HIdent(Deep, "d"),
               HField(TInt, HField(Wrap, HIdent(Deep, "b"), 1), 1),
               HField(TInt, HField(Wrap, HIdent(Deep, "d"), 1), 1), FALSE, "7"),
      CopyCase(HIdent(Wrap, "w"),
               HField(TInt, HIdent(Wrap, "b"), 1),
               HField(TInt, HIdent(Wrap, "w"), 1), FALSE, "7"),
      CopyCase(HIdent(Wrap, "w"),
               HField(TInt, DerefOf(HField(TRef(Point), HIdent(Wrap, "b"), 0)), 0),
               HField(TInt, HIdent(Point, "p"), 0), TRUE, "1"),
      CopyCase(HField(Point, HIdent(Line, "l"), 0),
               HField(TInt, HIdent(Point, "b"), 0),
               HField(TInt, HField(Point, HIdent(Line, "l"), 0), 0), FALSE, "1"),
      CopyCase(DerefOf(HIdent(TRef(Line), "rl")),
               HField(TInt, HField(Point, HIdent(Line, "b"), 0), 0),
               HField(TInt, HField(Point, HIdent(Line, "l"), 0), 0), FALSE, "1"),
      CopyCase(HIdent(Ints, "a"),
               HIndex(TInt, HIdent(Ints, "b"), HInt(0)),
               HIndex(TInt, HIdent(Ints, "a"), HInt(0)), TRUE, "5"),
      CopyCase(HIdent(TRef(TInt), "r"),
               DerefOf(HIdent(TRef(TInt), "b")),
               HIdent(TInt, "x"), TRUE, "1") }

CopyProgram(c) ==
    Prelude \o CopyCtors \o
    <<HFnDecl("main", <<>>,
              CopySetup \o << HLet("b", c.src),
                              HAssignment(c.through_b, HInt(9)),
                              print_int(c.through_src),
                              print_int(c.through_b),
                              HUnit >>)>>

CopyPrograms == {CopyProgram(c) : c \in CopyCases}

\* assignments whose r-value reads or moves their destination: x = x + 1;
\* x = show(&x), the callee printing x; *r = retarget(&r, &y), the callee
\* pointing r at y; a[i] = bump(&i), the callee incrementing i
IntRef == TRef(TInt)

OrderFunctions ==
    << HFnDecl("show", <<Param("p", IntRef)>>,
               << print_int(DerefOf(HIdent(IntRef, "p"))),
                  Sum(DerefOf(HIdent(IntRef, "p")), HInt(4)) >>),
       HFnDecl("retarget", <<Param("rr", TRef(IntRef)), Param("to", IntRef)>>,
               << HAssignment(DerefOf(HIdent(TRef(IntRef), "rr")), HIdent(IntRef, "to")),
                  HInt(7) >>),
       HFnDecl("bump", <<Param("p", IntRef)>>,
               << HAssignment(DerefOf(HIdent(IntRef, "p")),
                              Sum(DerefOf(HIdent(IntRef, "p")), HInt(1))),
                  HInt(5) >>) >>

\* [body, prints]: the statements of main and the lines they print
OrderCases ==
    { [body |-> << HLet("x", HInt(1)),
                   HAssignment(HIdent(TInt, "x"), Sum(HIdent(TInt, "x"), HInt(1))),
                   print_int(HIdent(TInt, "x")), HUnit >>,
       prints |-> <<<<"2">>>>],
      [body |-> << HLet("x", HInt(1)),
                   HAssignment(HIdent(TInt, "x"),
                               HFnCall(TInt, HIdent(TFn, "show"),
                                       <<RefTo(HIdent(TInt, "x"))>>)),
                   print_int(HIdent(TInt, "x")), HUnit >>,
       prints |-> <<<<"1">>, <<"5">>>>],
      [body |-> << HLet("x", HInt(1)), HLet("y", HInt(2)),
                   HLet("r", RefTo(HIdent(TInt, "x"))),
                   HAssignment(DerefOf(HIdent(IntRef, "r")),
                               HFnCall(TInt, HIdent(TFn, "retarget"),
                                       <<RefTo(HIdent(IntRef, "r")),
                                         RefTo(HIdent(TInt, "y"))>>)),
                   print_int(HIdent(TInt, "x")), print_int(HIdent(TInt, "y")), HUnit >>,
       prints |-> <<<<"1">>, <<"7">>>>],
      [body |-> << HLet("a", HArray(Ints, <<ArraySeg(HInt(0), Some(HInt(2)))>>)),
                   HLet("i", HInt(0)),
                   HAssignment(HIndex(TInt, HIdent(Ints, "a"), HIdent(TInt, "i")),
                               HFnCall(TInt, HIdent(TFn, "bump"),
                                       <<RefTo(HIdent(TInt, "i"))>>)),
                   print_int(HIndex(TInt, HIdent(Ints, "a"), HInt(0))),
                   print_int(HIndex(TInt, HIdent(Ints, "a"), HInt(1))), HUnit >>,
       prints |-> <<<<"0">>, <<"5">>>>] }

OrderProgram(c) == Prelude \o OrderFunctions \o <<HFnDecl("main", <<>>, c.body)>>

OrderPrograms == {OrderProgram(c) : c \in OrderCases}

\* programs whose names are bound as functions and as variables at several
\* depths; [decls, body, prints, lowers]: the declarations before main, the
\* statements of main, the lines printed, and whether lower() returns
Returns(name, n) == HFnDecl(name, <<>>, <<HInt(n)>>)
CallOf(name) == HFnCall(TInt, HIdent(TFn, name), <<>>)

NameCases ==
    { \* the nearest function of the name: the one nested in outer inside
      \* outer, the top-level one in k
      [decls |-> << Returns("f", 1),
                    HFnDecl("outer", <<>>, <<Returns("f", 2), CallOf("f")>>),
                    HFnDecl("k", <<>>, <<CallOf("f")>>) >>,
       body |-> << print_int(CallOf("outer")), print_int(CallOf("k")), HUnit >>,
       prints |-> <<<<"2">>, <<"1">>>>, lowers |-> TRUE],
      \* g, nested in outer, names x: the function x, not outer's parameter x
      [decls |-> << Returns("x", 7),
                    HFnDecl("outer", <<Param("x", TInt)>>,
                            << HFnDecl("g", <<>>, <<CallOf("x")>>),
                               Sum(CallOf("g"), HIdent(TInt, "x")) >>) >>,
       body |-> << print_int(HFnCall(TInt, HIdent(TFn, "outer"), <<HInt(1)>>)), HUnit >>,
       prints |-> <<<<"8">>>>, lowers |-> TRUE],
      \* g names outer's parameter x and there is no function x
      [decls |-> << HFnDecl("outer", <<Param("x", TInt)>>,
                            << HFnDecl("g", <<>>, <<HIdent(TInt, "x")>>),
                               CallOf("g") >>) >>,
       body |-> << print_int(HFnCall(TInt, HIdent(TFn, "outer"), <<HInt(1)>>)), HUnit >>,
       prints |-> <<>>, lowers |-> FALSE],
      \* g calls h, declared in the enclosing body, and prints through a
      \* function of the outermost body
      [decls |-> << HFnDecl("outer", <<>>,
                            << Returns("h", 3),
                               HFnDecl("g", <<>>, <<print_int(CallOf("h")), CallOf("h")>>),
                               CallOf("g") >>) >>,
       body |-> << print_int(CallOf("outer")), HUnit >>,
       prints |-> <<<<"3">>, <<"3">>>>, lowers |-> TRUE],
      \* y is a variable inside the block and the function again after it;
      \* f is a variable from its let on
      [decls |-> << Returns("y", 9), Returns("f", 1) >>,
       body |-> << HBlock(TUnit, <<HLet("y", HInt(2)), print_int(HIdent(TInt, "y")), HUnit>>),
                   print_int(CallOf("y")),
                   HIf(TUnit, <<HArm(HBool(TRUE), <<HLet("y", HInt(4)),
                                                    print_int(HIdent(TInt, "y")), HUnit>>)>>,
                       <<>>),
                   print_int(CallOf("y")),
                   print_int(CallOf("f")),
                   HLet("f", HInt(5)),
                   print_int(HIdent(TInt, "f")), HUnit >>,
       prints |-> <<<<"2">>, <<"9">>, <<"4">>, <<"9">>, <<"1">>, <<"5">>>>, lowers |-> TRUE] }

NameProgram(c) == Prelude \o c.decls \o <<HFnDecl("main", <<>>, c.body)>>

NamePrograms == {NameProgram(c) : c \in NameCases}

\* a struct value formatted at 1..MaxSites interpolation sites of main
MaxSites == 3

SiteValues == StructValues

SiteProgram(binding, n) ==
    StructMain(binding \o [i \in 1..n |-> print(HFStr(<<Formatted(binding)>>))] \o <<HUnit>>)

SitePrograms == {SiteProgram(binding, n) : binding \in SiteValues, n \in 1..MaxSites}

\* programs that print 1, run one statement that faults or not, and print 2
FaultDecls ==
    << HFnDecl("str_find", <<Param("s", TStr), Param("n", TStr)>>, <<>>),
       HFnDecl("str_rfind", <<Param("s", TStr), Param("n", TStr)>>, <<>>),
       HFnDecl("chr", <<Param("i", TInt)>>, <<>>),
       HFnDecl("id", <<Param("i", TInt)>>, <<HIdent(TInt, "i")>>),
       HFnDecl("third", <<>>,
               << HLet("b", HArray(Ints, <<ArraySeg(HInt(0), Some(HInt(2)))>>)),
                  HIndex(TInt, HIdent(Ints, "b"), HInt(2)) >>) >>

FaultSetup ==
    << HLet("a", HArray(Ints, <<ArraySeg(HInt(0), Some(HInt(2)))>>)),
       HLet("s", HString(<<"a", "b", "c", "b">>)),
       HLet("i", HInt(4)),
       HLet("z", HInt(0)),
       print_int(HInt(1)) >>

Quot(a, b) == HBinary(TInt, a, "Div", b)
Rem(a, b) == HBinary(TInt, a, "Mod", b)
Elem(index) == HIndex(TInt, HIdent(Ints, "a"), index)
CharAt(index) == HIndex(TChar, HIdent(TStr, "s"), index)
Slice(from, op, to) == HIndex(TStr, HIdent(TStr, "s"), HBinary(TRange, from, op, to))
SameChar(a, b) == HBinary(TBool, a, "Eq", b)
Find(name, needle) ==
    HFnCall(TInt, HIdent(TFn, name), <<HIdent(TStr, "s"), HString(needle)>>)
Chr(int) == HFnCall(TChar, HIdent(TFn, "chr"), <<int>>)

\* [stmt, shows]: the statement, and None where it faults or Some(the
\* lines it prints) where it does not
Faulting(stmt) == [stmt |-> stmt, shows |-> None]
Showing(stmt, line) == [stmt |-> stmt, shows |-> Some(<<line>>)]

FaultCases ==
    { Faulting(print_int(Quot(HInt(7), HInt(0)))),
      Faulting(print_int(Quot(HInt(7), HIdent(TInt, "z")))),
      Faulting(print_int(Rem(HInt(7), HInt(0)))),
      Faulting(print_int(Rem(HIdent(TInt, "z"), HIdent(TInt, "z")))),
      Showing(print_int(Quot(HInt(7), HInt(2))), <<"3">>),
      Showing(print_int(Quot(HInt(-7), HInt(2))), <<"-", "3">>),
      Showing(print_int(Rem(HInt(-7), HInt(2))), <<"-", "1">>),
      Showing(print_int(Quot(HIdent(TInt, "z"), HInt(7))), <<"0">>),
      Faulting(print_int(Elem(HInt(2)))),
      Faulting(print_int(Elem(HIdent(TInt, "i")))),
      Faulting(print_int(Elem(HInt(-1)))),
      Faulting(HAssignment(Elem(HInt(2)), HInt(5))),
      Faulting(HAssignment(Elem(HIdent(TInt, "i")), HInt(5))),
      Faulting(print_int(HFnCall(TInt, HIdent(TFn, "id"), <<Elem(HIdent(TInt, "i"))>>))),
      Faulting(print_int(HFnCall(TInt, HIdent(TFn, "third"), <<>>))),
      Showing(print_int(Elem(HInt(1))), <<"0">>),
      Showing(print_int(Elem(HIdent(TInt, "z"))), <<"0">>),
      Faulting(print_bool(SameChar(CharAt(HInt(4)), CharAt(HInt(0))))),
      Faulting(print_bool(SameChar(CharAt(HInt(0)), CharAt(HIdent(TInt, "i"))))),
      Faulting(print_bool(SameChar(CharAt(HInt(-1)), CharAt(HInt(0))))),
      Showing(print_bool(SameChar(CharAt(HInt(1)), CharAt(HInt(3)))), <<"t", "r", "u", "e">>),
      Showing(print_bool(SameChar(CharAt(HInt(0)), CharAt(HInt(3)))),
              <<"f", "a", "l", "s", "e">>),
      Faulting(print(Slice(HInt(1), "Range", HInt(5)))),
      Faulting(print(Slice(HInt(4), "RangeInclusive", HInt(4)))),
      Faulting(print(Slice(HInt(2), "Range", HInt(1)))),
      Faulting(print(Slice(HInt(-1), "Range", HInt(2)))),
      Faulting(print(Slice(HInt(5), "Range", HInt(5)))),
      Showing(print(Slice(HInt(1), "Range", HInt(3))), <<"b", "c">>),
      Showing(print(Slice(HInt(0), "RangeInclusive", HInt(3))), <<"a", "b", "c", "b">>),
      Showing(print(Slice(HInt(4), "Range", HInt(4))), <<>>),
      Faulting(print_int(Find("str_find", <<"x">>))),
      Faulting(print_int(Find("str_rfind", <<"x">>))),
      Faulting(print_int(Find("str_find", <<"c", "a">>))),
      Faulting(print_int(Find("str_rfind", <<"a", "b", "c", "b", "a">>))),
      Showing(print_int(Find("str_find", <<"b">>)), <<"1">>),
      Showing(print_int(Find("str_rfind", <<"b">>)), <<"3">>),
      Showing(print_int(Find("str_find", <<>>)), <<"0">>),
      Showing(print_int(Find("str_rfind", <<>>)), <<"4">>),
      Faulting(print_bool(SameChar(Chr(HInt(256)), CharAt(HInt(0))))),
      Faulting(print_bool(SameChar(CharAt(HInt(0)), Chr(HInt(-1))))),
      Showing(print_bool(SameChar(Chr(HInt(97)), CharAt(HInt(0)))), <<"t", "r", "u", "e">>),
      Showing(print_bool(SameChar(Chr(HInt(255)), CharAt(HInt(0)))),
              <<"f", "a", "l", "s", "e">>) }

FaultProgram(c) ==
    Prelude \o FaultDecls \o
    <<HFnDecl("main", <<>>, FaultSetup \o <<c.stmt, print_int(HInt(2)), HUnit>>)>>

FaultPrograms == {FaultProgram(c) : c \in FaultCases}

\* constructors that go on after the StructInit: they write a field of the
\* struct and print the parameter it was initialized from
Pair == TStruct(6, <<Point, TInt>>)

CtorCases ==
    { [decl |-> HFnDecl("Q", <<Param("a", TInt), Param("b", TInt)>>,
                        << HLet("s", HStructInit(Point)),
                           HAssignment(HField(TInt, HIdent(Point, "s"), 0), HInt(9)),
                           print_int(HIdent(TInt, "a")),
                           print_int(HField(TInt, HIdent(Point, "s"), 0)),
                           HIdent(Point, "s") >>),
       body |-> << HLet("p", HFnCall(Point, HIdent(TFn, "Q"), <<HInt(1), HInt(2)>>)),
                   print_int(HField(TInt, HIdent(Point, "p"), 0)),
                   print_int(HField(TInt, HIdent(Point, "p"), 1)), HUnit >>,
       prints |-> <<<<"1">>, <<"9">>, <<"9">>, <<"2">>>>],
      [decl |-> HFnDecl("Q", <<Param("a", Point), Param("n", TInt)>>,
                        << HLet("s", HStructInit(Pair)),
                           HAssignment(HField(TInt, HField(Point, HIdent(Pair, "s"), 0), 1),
                                       HInt(9)),
                           print_int(HField(TInt, HIdent(Point, "a"), 1)),
                           HIdent(Pair, "s") >>),
       body |-> << HLet("q", MakePoint(1, 2)),
                   HLet("p", HFnCall(Pair, HIdent(TFn, "Q"), <<HIdent(Point, "q"), HInt(3)>>)),
                   print_int(HField(TInt, HField(Point, HIdent(Pair, "p"), 0), 1)),
                   print_int(HField(TInt, HIdent(Point, "q"), 1)),
                   print_int(HField(TInt, HIdent(Pair, "p"), 1)), HUnit >>,
       prints |-> <<<<"2">>, <<"9">>, <<"2">>, <<"3">>>>] }

CtorProgram(c) == Prelude \o Ctors \o <<c.decl, HFnDecl("main", <<>>, c.body)>>

CtorPrograms == {CtorProgram(c) : c \in CtorCases}

\* a function that indexes one of its parameters: a string, an array, and
\* references to them, by a literal, a variable and a range
IndexParams ==
    << Param("s", TStr), Param("r", TRef(TStr)), Param("rr", TRef(TRef(TStr))),
       Param("a", Ints), Param("ra", TRef(Ints)), Param("rra", TRef(TRef(Ints))),
       Param("i", TInt) >>

Indexees ==
    { HIdent(IndexParams[n].ty, IndexParams[n].ident) : n \in 1..(Len(IndexParams) - 1) }

Indices ==
    { HInt(1), HInt(-1), HIdent(TInt, "i"),
      HBinary(TRange, HInt(0), "Range", HIdent(TInt, "i")) }

IndexCases == Indexees \X Indices

IndexProgram(c) ==
    Prelude
    \o << HFnDecl("f", IndexParams, << HLet("x", HIndex(TInt, c[1], c[2])), HUnit >>),
          HFnDecl("main", <<>>, << print_int(HInt(1)), HUnit >>) >>

IndexPrograms == {IndexProgram(c) : c \in IndexCases}

\* calls whose callee writes what it was given: a function calling itself
\* with a local read after the call, a callee assigning to an integer
\* parameter, to a field of a struct parameter and through a reference
\* parameter, and a callee writing an element of an array parameter
FrameCases ==
    { [decl |-> HFnDecl("f", <<Param("n", TInt)>>,
                        << HLet("m", HIdent(TInt, "n")),
                           HIf(TUnit,
                               << HArm(HBinary(TBool, HIdent(TInt, "n"), "Greater", HInt(0)),
                                       << HLet("r", HFnCall(TInt, HIdent(TFn, "f"),
                                                            <<HBinary(TInt, HIdent(TInt, "n"),
                                                                      "Sub", HInt(1))>>)),
                                          print_int(HIdent(TInt, "r")) >>) >>,
                               <<>>),
                           print_int(HIdent(TInt, "m")),
                           Sum(HIdent(TInt, "n"), HInt(1)) >>),
       body |-> << print_int(HFnCall(TInt, HIdent(TFn, "f"), <<HInt(2)>>)), HUnit >>,
       prints |-> <<<<"0">>, <<"1">>, <<"1">>, <<"2">>, <<"2">>, <<"3">>>>],
      [decl |-> HFnDecl("h", <<Param("k", TInt), Param("p", Point), Param("r", IntRef)>>,
                        << HAssignment(HIdent(TInt, "k"), HInt(9)),
                           HAssignment(HField(TInt, HIdent(Point, "p"), 0), HInt(9)),
                           HAssignment(DerefOf(HIdent(IntRef, "r")), HInt(7)),
                           print_int(HIdent(TInt, "k")),
                           HField(TInt, HIdent(Point, "p"), 0) >>),
       body |-> << HLet("y", HInt(2)), HLet("q", MakePoint(1, 2)), HLet("x", HInt(1)),
                   HLet("z", HFnCall(TInt, HIdent(TFn, "h"),
                                     <<HIdent(TInt, "y"), HIdent(Point, "q"),
                                       RefTo(HIdent(TInt, "x"))>>)),
                   print_int(HIdent(TInt, "y")),
                   print_int(HField(TInt, HIdent(Point, "q"), 0)),
                   print_int(HIdent(TInt, "x")),
                   print_int(HIdent(TInt, "z")), HUnit >>,
       prints |-> <<<<"9">>, <<"2">>, <<"1">>, <<"7">>, <<"9">>>>],
      [decl |-> HFnDecl("w", <<Param("b", Ints)>>,
                        << HAssignment(HIndex(TInt, HIdent(Ints, "b"), HInt(0)), HInt(9)),
                           HUnit >>),
       body |-> << HLet("a", HArray(Ints, <<ArraySeg(HInt(0), Some(HInt(2)))>>)),
                   HFnCall(TUnit, HIdent(TFn, "w"), <<HIdent(Ints, "a")>>),
                   print_int(HIndex(TInt, HIdent(Ints, "a"), HInt(0))),
                   print_int(HIndex(TInt, HIdent(Ints, "a"), HInt(1))), HUnit >>,
       prints |-> <<<<"9">>, <<"0">>>>] }

FrameProgram(c) == Prelude \o Ctors \o <<c.decl, HFnDecl("main", <<>>, c.body)>>

FramePrograms == {FrameProgram(c) : c \in FrameCases}

\* bindings whose initializer names the identifier being bound or another
\* one: `let x = 5` followed by LetLen - 1 bindings of x or y to a literal,
\* to x, to x + 1 or to y + 1, and x printed at the end
LetLen == 3
LetIdents == {"x", "y"}
LetInits ==
    { HInt(1), HIdent(TInt, "x"),
      Sum(HIdent(TInt, "x"), HInt(1)), Sum(HIdent(TInt, "y"), HInt(1)) }
LetChains ==
    {<<HLet("x", HInt(5))>> \o lets :
       lets \in [1..(LetLen - 1) -> {HLet(ident, init) : ident \in LetIdents, init \in LetInits}]}

LetProgram(lets) == Main(lets \o <<print_int(HIdent(TInt, "x")), HUnit>>)

\* a binding of x to x + 2 inside a block, read inside and after the block,
\* and a binding of x whose initializer is a block binding an x of its own
LetBlockCases ==
    { [body |-> << HLet("x", HInt(1)),
                   HBlock(TUnit, << HLet("x", Sum(HIdent(TInt, "x"), HInt(2))),
                                    print_int(HIdent(TInt, "x")) >>),
                   print_int(HIdent(TInt, "x")), HUnit >>,
       prints |-> <<<<"3">>, <<"1">>>>],
      [body |-> << HLet("x", HInt(1)),
                   HLet("x", HBlock(TInt, << HLet("x", Sum(HIdent(TInt, "x"), HInt(4))),
                                             Sum(HIdent(TInt, "x"), HInt(1)) >>)),
                   print_int(HIdent(TInt, "x")), HUnit >>,
       prints |-> <<<<"6">>>>] }

LetPrograms ==
    {LetProgram(lets) : lets \in LetChains} \union {Main(c.body) : c \in LetBlockCases}

\* the bodies of a function g(a: int, b: int), by the form of their final
\* expression, each with the operand its Return is to carry: Unit, the
\* constant, the local of the parameter or of the binding, or the first new
\* local of the body, which holds the computed value
ShapeCases ==
    { [body |-> <<>>, ty |-> TUnit, returns |-> OUNIT],
      [body |-> <<HIdent(TInt, "b")>>, ty |-> TInt, returns |-> OLocal(1)],
      [body |-> <<HInt(3)>>, ty |-> TInt, returns |-> OConstant(CInt(3))],
      [body |-> <<Sum(HIdent(TInt, "a"), HInt(1))>>, ty |-> TInt, returns |-> OLocal(2)],
      [body |-> <<HReturn(HIdent(TInt, "a"))>>, ty |-> TInt, returns |-> OUNIT],
      [body |-> <<HLet("b", HInt(4)), HIdent(TInt, "b")>>, ty |-> TInt,
       returns |-> OLocal(2)],
      [body |-> <<HPrintStr(<<"g">>)>>, ty |-> TUnit, returns |-> OUNIT],
      [body |-> <<HLoop(<<HBreak>>)>>, ty |-> TUnit, returns |-> OUNIT],
      [body |-> <<HIf(TInt, <<HArm(HBinary(TBool, HIdent(TInt, "a"), "Greater", HInt(0)),
                                   <<HInt(1)>>)>>,
                      <<HInt(2)>>)>>, ty |-> TInt, returns |-> OLocal(2)],
      [body |-> << HFnDecl("h", <<>>, <<HInt(7)>>),
                   HFnCall(TInt, HIdent(TFn, "h"), <<>>) >>, ty |-> TInt, returns |-> OLocal(2)] }

ShapeProgram(c) ==
    Prelude \o Ctors
    \o << HFnDecl("g", <<Param("a", TInt), Param("b", TInt)>>, c.body),
          HFnDecl("main", <<>>,
                  << HLet("s", MakePoint(1, 2)),
                     print(HFStr(<<HIdent(Point, "s")>>)),
                     HFnCall(c.ty, HIdent(TFn, "g"), <<HInt(1), HInt(2)>>),
                     HUnit >>) >>

ShapePrograms == {ShapeProgram(c) : c \in ShapeCases}

\* a reference to a local, to a field, and to a field of a struct that is
\* then assigned as a whole: written through and read through, each way
AliasCases ==
    { [body |-> << HLet("x", HInt(1)),
                   HLet("r", RefTo(HIdent(TInt, "x"))),
                   HAssignment(DerefOf(HIdent(IntRef, "r")), HInt(5)),
                   print_int(HIdent(TInt, "x")),
                   HAssignment(HIdent(TInt, "x"), HInt(7)),
                   print_int(DerefOf(HIdent(IntRef, "r"))), HUnit >>,
       prints |-> <<<<"5">>, <<"7">>>>],
      [body |-> << HLet("s", MakePoint(1, 2)),
                   HLet("r", RefTo(HField(TInt, HIdent(Point, "s"), 1))),
                   HAssignment(DerefOf(HIdent(IntRef, "r")), HInt(5)),
                   print_int(HField(TInt, HIdent(Point, "s"), 1)),
                   HAssignment(HField(TInt, HIdent(Point, "s"), 1), HInt(6)),
                   print_int(DerefOf(HIdent(IntRef, "r"))),
                   print_int(HField(TInt, HIdent(Point, "s"), 0)), HUnit >>,
       prints |-> <<<<"5">>, <<"6">>, <<"1">>>>],
      [body |-> << HLet("t", MakePoint(3, 4)),
                   HLet("s", MakePoint(1, 2)),
                   HLet("r", RefTo(HField(TInt, HIdent(Point, "s"), 0))),
                   HAssignment(HIdent(Point, "s"), HIdent(Point, "t")),
                   HAssignment(HField(TInt, HIdent(Point, "s"), 0), HInt(5)),
                   print_int(DerefOf(HIdent(IntRef, "r"))),
                   HAssignment(DerefOf(HIdent(IntRef, "r")), HInt(7)),
                   print_int(HField(TInt, HIdent(Point, "s"), 0)), HUnit >>,
       prints |-> <<<<"1">>, <<"5">>>>] }

AliasPrograms == {StructMain(c.body) : c \in AliasCases}

\* l-values built from the parameter a by up to MaxChain steps, each a field,
\* a dereference, an index by the parameter i or an index by a literal; the
\* type of a is the one the steps require, the l-value is an int
MaxChain == 3
IndexBy(index) == [p |-> "Index", by |-> index]
PlaceSteps == {Field(0), Field(1), Deref, IndexBy(HIdent(TInt, "i")), IndexBy(HInt(1))}
PlaceChains ==
    UNION {[1..n -> PlaceSteps] : n \in 1..MaxChain}
    \union {<<Deref, Field(1), IndexBy(HIdent(TInt, "i")), Field(0)>>}

\* the type of the l-value after the first n steps
RECURSIVE TypeAt(_, _)
TypeAt(chain, n) ==
    IF n = Len(chain) THEN TInt
    ELSE CASE chain[n + 1].p = "Field" ->
                TStruct(10 + n, IF chain[n + 1].i = 0 THEN <<TypeAt(chain, n + 1), TInt>>
                                ELSE <<TInt, TypeAt(chain, n + 1)>>)
           [] chain[n + 1].p = "Deref" -> TRef(TypeAt(chain, n + 1))
           [] chain[n + 1].p = "Index" -> TArray(TypeAt(chain, n + 1))

\* the l-value after the first n steps
RECURSIVE LValue(_, _)
LValue(chain, n) ==
    IF n = 0 THEN HIdent(TypeAt(chain, 0), "a")
    ELSE CASE chain[n].p = "Field" -> HField(TypeAt(chain, n), LValue(chain, n - 1), chain[n].i)
           [] chain[n].p = "Deref" -> HUnary(TypeAt(chain, n), "Deref", LValue(chain, n - 1))
           [] chain[n].p = "Index" -> HIndex(TypeAt(chain, n), LValue(chain, n - 1), chain[n].by)

PlaceProgram(chain) ==
    Prelude
    \o << HFnDecl("f", <<Param("a", TypeAt(chain, 0)), Param("i", TInt)>>,
                  << HAssignment(LValue(chain, Len(chain)), HInt(9)), HUnit >>),
          HFnDecl("main", <<>>, << print_int(HInt(1)), HUnit >>) >>

\* assignments to nested l-values of variables, read back from the variable:
\* a field of a field, a field behind a reference held in a field, a field
\* of a field behind a reference, and an element behind a reference
NestedCases ==
    { [body |-> << HLet("l", HFnCall(Line, HIdent(TFn, "Line"),
                                     <<MakePoint(1, 2), MakePoint(3, 4)>>)),
                   HAssignment(HField(TInt, HField(Point, HIdent(Line, "l"), 1), 0), HInt(9)),
                   print_int(HField(TInt, HField(Point, HIdent(Line, "l"), 1), 0)),
                   print_int(HField(TInt, HField(Point, HIdent(Line, "l"), 1), 1)),
                   print_int(HField(TInt, HField(Point, HIdent(Line, "l"), 0), 0)), HUnit >>,
       prints |-> <<<<"9">>, <<"4">>, <<"1">>>>],
      [body |-> << HLet("q", MakePoint(5, 6)),
                   HLet("w", HFnCall(Wrap, HIdent(TFn, "Wrap"),
                                     <<RefTo(HIdent(Point, "q")), HInt(7)>>)),
                   HAssignment(HField(TInt, DerefOf(HField(TRef(Point), HIdent(Wrap, "w"), 0)), 1),
                               HInt(9)),
                   print_int(HField(TInt, HIdent(Point, "q"), 1)),
                   print_int(HField(TInt, HIdent(Point, "q"), 0)), HUnit >>,
       prints |-> <<<<"9">>, <<"5">>>>],
      [body |-> << HLet("l", HFnCall(Line, HIdent(TFn, "Line"),
                                     <<MakePoint(1, 2), MakePoint(3, 4)>>)),
                   HLet("r", RefTo(HIdent(Line, "l"))),
                   HAssignment(HField(TInt, HField(Point, DerefOf(HIdent(TRef(Line), "r")), 0), 1),
                               HInt(9)),
                   print_int(HField(TInt, HField(Point, HIdent(Line, "l"), 0), 1)),
                   print_int(HField(TInt, HField(Point, HIdent(Line, "l"), 1), 1)), HUnit >>,
       prints |-> <<<<"9">>, <<"4">>>>],
      [body |-> << HLet("a", HArray(Ints, <<ArraySeg(HInt(0), Some(HInt(3)))>>)),
                   HLet("i", HInt(2)),
                   HLet("r", RefTo(HIdent(Ints, "a"))),
                   HAssignment(HIndex(TInt, DerefOf(HIdent(TRef(Ints), "r")), HIdent(TInt, "i")),
                               HInt(9)),
                   print_int(HIndex(TInt, HIdent(Ints, "a"), HIdent(TInt, "i"))),
                   print_int(HIndex(TInt, HIdent(Ints, "a"), HInt(1))), HUnit >>,
       prints |-> <<<<"9">>, <<"0">>>>] }

PlacePrograms ==
    {PlaceProgram(chain) : chain \in PlaceChains}
    \union {StructMain(c.body) : c \in NestedCases}

(***************************************************************************)
(* The specification: a program of one of the families is lowered and run. *)
(***************************************************************************)
Programs ==
    Scenarios \union LogicPrograms \union IfPrograms \union LoopPrograms
    \union WhilePrograms \union StructPrograms \union CallPrograms \union MainPrograms
    \union ArrayPrograms \union RefPrograms
    \union BlockPrograms \union ScopePrograms \union AbortPrograms
    \union CopyPrograms \union OrderPrograms
    \union NamePrograms \union SitePrograms \union FaultPrograms
    \union CtorPrograms \union IndexPrograms \union FramePrograms
    \union LetPrograms \union ShapePrograms \union AliasPrograms
    \union PlacePrograms

Init == InitWith(Programs)

Spec == Init /\ [][Next]_vars

\* the string literals of up to MaxLiteral characters
MaxLiteral == 5

LiteralChars == {"a", "/", "$", "{", "}"}

Literals == UNION {[1..n -> LiteralChars] : n \in 0..MaxLiteral}

ParseInit ==
    /\ parser \in {ParserNew(raw) : raw \in Literals}
    /\ hir = <<>>
    /\ mir = NoMir
    /\ phase = "parse"
    /\ frames = <<>>
    /\ heap = <<>>
    /\ out = <<>>
    /\ ret = None
    /\ steps = 0
    /\ tcx = NoTcx
    /\ eval = NoEval

ParseNext == ParseChar \/ ParseFinish

ParseSpec == ParseInit /\ [][ParseNext]_vars

TyInit ==
    /\ tcx = NoTcx
    /\ eval = NoEval
    /\ parser = NoParser
    /\ hir = <<>>
    /\ mir = NoMir
    /\ phase = "ty"
    /\ frames = <<>>
    /\ heap = <<>>
    /\ out = <<>>
    /\ ret = None
    /\ steps = 0

TyNext == NewVid \/ TryEq \/ TrySubtype \/ InferShallow \/ InferDeep

TySpec == TyInit /\ [][TyNext]_vars

RangeInit ==
    /\ eval \in [op : {"IntRange", "IntRangeInclusive"}, lhs : I64s, rhs : I64s,
                 overflow_checks : BOOLEAN, value : {None}]
    /\ tcx = NoTcx
    /\ parser = NoParser
    /\ hir = <<>>
    /\ mir = NoMir
    /\ phase = "eval"
    /\ frames = <<>>
    /\ heap = <<>>
    /\ out = <<>>
    /\ ret = None
    /\ steps = 0

RangeNext == EvalIntRange \/ EvalIntRangeInclusive

RangeSpec == RangeInit /\ [][RangeNext]_vars

(***************************************************************************)
(* Properties of the finished MIR                                          *)
(***************************************************************************)
Lowered == phase \notin {"hir", "lower_panic"}

Bodies == 1..Len(mir.bodies)
BlocksOf(b) == 1..Len(mir.bodies[b].blocks)
TerminatorOf(b, i) == mir.bodies[b].blocks[i].terminator

\* the block ids a terminator names
Targets(term) ==
    IF term.t = "Goto" THEN {term.target}
    ELSE IF term.t = "Branch" THEN {term.fals, term.tru}
    ELSE {}

\* C1: in every body of the MIR returned by lowering, every block id named by
\* a Goto or a Branch is an index of that body's block arena and none is
\* PLACEHOLDER, whatever the nesting of if/else, loops, breaks, returns, and/or
C1_BlockIdsValid ==
    Lowered =>
      \A b \in Bodies : \A i \in BlocksOf(b) : \A target \in Targets(TerminatorOf(b, i)) :
        /\ target # PLACEHOLDER
        /\ 0 <= target
        /\ target < Len(mir.bodies[b].blocks)

\* a lowered body with a patched break (a Goto forward past the next block),
\* a back edge and a two-way branch
C1_Witness ==
    /\ phase = "mir"
    /\ hir \in LoopPrograms
    /\ \E b \in Bodies :
         /\ \E i \in BlocksOf(b) :
              TerminatorOf(b, i).t = "Goto" /\ TerminatorOf(b, i).target > i
         /\ \E i \in BlocksOf(b) :
              TerminatorOf(b, i).t = "Goto" /\ TerminatorOf(b, i).target < i - 1
         /\ \E i \in BlocksOf(b) :
              /\ TerminatorOf(b, i).t = "Branch"
              /\ TerminatorOf(b, i).fals > i
              /\ TerminatorOf(b, i).tru = i

Range(f) == {f[i] : i \in DOMAIN f}

\* the places an operand, an r-value, a terminator and a body name
OperandPlaces(op) == IF op.o \in {"Place", "Ref"} THEN {op.place} ELSE {}

RValueOperands(rv) ==
    CASE rv.r = "Use" -> {rv.operand}
      [] rv.r = "BinaryExpr" -> {rv.lhs, rv.rhs}
      [] rv.r = "UnaryExpr" -> {rv.operand}
      [] rv.r = "Call" -> {rv.function} \union Range(rv.args)
      [] rv.r = "BuildArray" ->
           UNION {{segment[1]} \union Range(segment[2]) : segment \in Range(rv.segments)}
      [] rv.r = "StrJoin" -> Range(rv.segments)

TerminatorOperands(term) ==
    CASE term.t = "Branch" -> {term.condition}
      [] term.t = "Return" -> {term.operand}
      [] OTHER -> {}

StatementsOf(b) == UNION {Range(block.statements) : block \in Range(mir.bodies[b].blocks)}

PlacesOf(b) ==
    {stmt.place : stmt \in StatementsOf(b)}
    \union UNION {OperandPlaces(op) : op \in UNION {RValueOperands(stmt.rvalue) :
                                                      stmt \in StatementsOf(b)}}
    \union UNION {OperandPlaces(op) : op \in UNION {TerminatorOperands(block.terminator) :
                                                      block \in Range(mir.bodies[b].blocks)}}

\* the locals a place names: its base and the locals of its Index projections
LocalsOf(place) ==
    {place.local} \union {proj.l : proj \in {q \in Range(place.projections) : q.p = "Index"}}

\* the synthesized struct formatters: the unnamed bodies other than the root
Formatters == {b \in Bodies : b > 1 /\ mir.bodies[b].name = None}

MainOf(m) == m.bodies[m.main_body[1] + 1]

\* C2: in every finished body every place, as assignment target, operand or Ref
\* operand, has its local below body.locals, and so has the local of every
\* Index projection; the locals created while a struct formatter is synthesized
\* in the middle of another body are the formatter's (each of its locals past
\* the parameter is assigned in it), and the interrupted body keeps the
\* statements that were pending, in order, and hands out as its next fresh
\* local the one it would have handed out without the synthesis
C2_PlacesWithinLocals ==
    Lowered =>
      /\ \A b \in Bodies : \A place \in PlacesOf(b) : \A l \in LocalsOf(place) :
           0 <= l /\ l < mir.bodies[b].locals
      /\ \A b \in Formatters :
           /\ mir.bodies[b].blocks # <<>>
           /\ \A l \in 1..(mir.bodies[b].locals - 1) :
                \E stmt \in StatementsOf(b) : stmt.place = PlaceLocal(l)
      /\ \A binding \in StructValues :
           hir = StructMain(MidBody(binding)) =>
             LET before == MainOf(lower_hir(StructMain(Interrupted(binding))))
                 pending == before.blocks[1].statements
                 stmts == MainOf(mir).blocks[1].statements
                 call == stmts[Len(pending) + 1]
             IN  /\ Len(stmts) > Len(pending)
                 /\ SubSeq(stmts, 1, Len(pending)) = pending
                 /\ call.place = PlaceLocal(before.locals)
                 /\ call.rvalue.r = "Call"
                 /\ call.rvalue.function.c.body + 1 \in Formatters

\* the formatter of a struct of structs has been synthesized in the middle of
\* main, the formatter of the inner struct in the middle of the outer one
C2_Witness ==
    /\ phase = "mir"
    /\ \E binding \in StructValues :
         /\ TypeOfLet(binding) = Line
         /\ hir = StructMain(MidBody(binding))
    /\ Cardinality(Formatters) >= 3
    /\ \E b \in Formatters : \E c \in Formatters :
         /\ mir.bodies[b].locals > 3
         /\ \E stmt \in StatementsOf(b) :
              stmt.rvalue.r = "Call" /\ stmt.rvalue.function = OConstant(CFunc(c - 1))

\* the calls of a body whose function operand is Constant::Func
DirectCalls(b) ==
    {stmt.rvalue : stmt \in {x \in StatementsOf(b) :
                               /\ x.rvalue.r = "Call"
                               /\ x.rvalue.function.o = "Constant"
                               /\ x.rvalue.function.c.c = "Func"}}

Callee(call) == mir.bodies[call.function.c.body + 1]

\* C3: every Call of the finished MIR on a Constant::Func(b) passes as many
\* arguments as bodies[b] has parameters, a call of a synthesized struct
\* formatter passing exactly one argument, a Ref, to a body of one parameter;
\* so the arguments fit the locals of the callee: every activation of the
\* interpreter holds body.locals cells, the arguments in the first of them
C3_ArgumentsMatchParams ==
    Lowered =>
      /\ \A b \in Bodies : \A call \in DirectCalls(b) :
           /\ call.function.c.body < Len(mir.bodies)
           /\ Len(call.args) = Callee(call).params
           /\ Len(call.args) <= Callee(call).locals
           /\ call.function.c.body + 1 \in Formatters =>
                /\ Len(call.args) = 1
                /\ call.args[1].o = "Ref"
                /\ Callee(call).params = 1
      /\ phase = "panic" => hir \in FaultPrograms
      /\ \A i \in 1..Len(frames) :
           Len(frames[i].locals) = mir.bodies[frames[i].body + 1].locals

\* the interpreter has entered a struct formatter, its only parameter holding
\* the reference passed by the call, below a caller that is itself running
C3_Witness ==
    /\ phase = "run"
    /\ Len(frames) >= 2
    /\ top.body + 1 \in Formatters
    /\ top.block = 0 /\ top.stmt = 1
    /\ heap[top.locals[1]].k = "Ref"
    /\ Len(top.locals) > 1
    /\ \E call \in DirectCalls(frames[Len(frames) - 1].body + 1) :
         call.function.c.body = top.body

\* the number of bodies pushed by the declarations among exprs[1..n], the
\* declarations nested in them included
RECURSIVE DeclCount(_, _)
DeclCount(exprs, n) ==
    IF n = 0 THEN 0
    ELSE DeclCount(exprs, n - 1)
         + IF exprs[n].kind = "FnDecl"
           THEN 1 + DeclCount(exprs[n].body, Len(exprs[n].body))
           ELSE 0

\* the positions in the root sequence of the declarations of a function named main
TopMains == {i \in 1..Len(hir) : hir[i].kind = "FnDecl" /\ hir[i].ident = "main"}

\* the body of the i-th root expression, a declaration: the root body is 0
BodyOfDecl(i) == 1 + DeclCount(hir, i - 1)

First(S) == CHOOSE i \in S : \A j \in S : i <= j
Last(S) == CHOOSE i \in S : \A j \in S : j <= i

\* C4 as stated: after lowering main_body is Some(b) exactly when a function
\* named main is declared at top level, b being the body of the first such
\* declaration
C4_FirstTopLevelMain ==
    Lowered =>
      /\ (mir.main_body # None) <=> (TopMains # {})
      /\ TopMains # {} => mir.main_body = Some(BodyOfDecl(First(TopMains)))

\* C4 amended: after lowering main_body is Some(b) exactly when a function
\* named main is declared at top level, b being the body of the last such
\* declaration; a main nested in another function never sets it
C4_LastTopLevelMain ==
    Lowered =>
      /\ (mir.main_body # None) <=> (TopMains # {})
      /\ TopMains # {} => mir.main_body = Some(BodyOfDecl(Last(TopMains)))

\* two top-level declarations of main, the first with a main nested in it:
\* three bodies are named main and main_body is the third
C4_Witness ==
    /\ phase = "mir"
    /\ Cardinality(TopMains) = 2
    /\ BodyOfDecl(Last(TopMains)) = BodyOfDecl(First(TopMains)) + 2
    /\ mir.main_body = Some(BodyOfDecl(Last(TopMains)))
    /\ Cardinality({b \in Bodies : mir.bodies[b].name = Some("main")}) = 3

(***************************************************************************)
(* Properties of the execution of the finished MIR                         *)
(***************************************************************************)
IsPrefix(a, b) == Len(a) <= Len(b) /\ SubSeq(b, 1, Len(a)) = a

\* the run of the program has printed nothing its meaning does not print, in
\* the same order, has met no panic and no abort, and at its end has printed all of it
RunsAs(program) ==
    /\ phase \notin {"lower_panic", "panic", "abort"}
    /\ steps < MaxSteps
    /\ IsPrefix(out, Meaning(program).out)
    /\ phase = "done" => out = Meaning(program).out /\ Some(ret[1]) = Meaning(program).val

RunsAsMeant == RunsAs(hir)

\* C5: the MIR lowered from `a and b` runs the statements of b only when a
\* was true, the MIR lowered from `a or b` only when a was false, and the
\* output local holds a && b (a || b) at the join, operands that are
\* themselves and/or expressions included: every operand prints its name
\* when it is evaluated and the value is printed or branched on, and what a
\* run prints is what short-circuit evaluation prints
C5_ShortCircuit == hir \in LogicPrograms => RunsAsMeant

\* (a or b) and c with a true has run to its end: b was skipped, c was not
C5_Witness ==
    /\ phase = "done"
    /\ \E e \in LogicExprs(2, 1) :
         /\ hir = LogicValue(e)
         /\ e.op = "And" /\ e.lhs.kind = "Binary" /\ e.lhs.op = "Or"
         /\ e.lhs.lhs = Atom("a", TRUE)
    /\ Len(out) = 3
    /\ out[1] = <<"a">> /\ out[2] = <<"c">>

\* the blocks of main that jump to block j (0-based), as indices of body.blocks
JumpsTo(j) ==
    {i \in 1..Len(MainOf(mir).blocks) : j \in Targets(MainOf(mir).blocks[i].terminator)}

\* the statements of main whose target is the plain local l
AssignmentsTo(l) ==
    {stmt \in UNION {Range(block.statements) : block \in Range(MainOf(mir).blocks)} :
       stmt.place = PlaceLocal(l)}

\* C6: the MIR lowered from an if/else-if/else chain evaluates the conditions
\* in source order up to the first true one, runs the body of that arm only,
\* runs the else block only when every condition was false, and continues at
\* the join block (every condition and body prints when it runs, and the
\* statement after the chain prints too); in a chain with a value the output
\* local, the first local of main, is assigned last in every block that jumps
\* to the join, where it is read; in a unit chain no statement of main
\* assigns or reads the output local
C6_IfChain ==
    /\ hir \in IfPrograms => RunsAsMeant
    /\ (Lowered /\ hir \in IfValues) =>
         \E j \in 1..Len(MainOf(mir).blocks) :
           /\ MainOf(mir).blocks[j].statements # <<>>
           /\ MainOf(mir).blocks[j].statements[1].rvalue = RLocal(0)
           /\ Cardinality(JumpsTo(j - 1)) = Len(hir[Len(hir)].body[1].expr.arms) + 1
           /\ \A i \in JumpsTo(j - 1) :
                /\ MainOf(mir).blocks[i].terminator = Goto(j - 1)
                /\ MainOf(mir).blocks[i].statements # <<>>
                /\ MainOf(mir).blocks[i].statements[Len(MainOf(mir).blocks[i].statements)].place
                     = PlaceLocal(0)
    /\ (Lowered /\ hir \in IfStatements) =>
         /\ MainOf(mir).locals > 0
         /\ \A place \in PlacesOf(mir.main_body[1] + 1) : 0 \notin LocalsOf(place)

\* a chain of three arms with a value has run to its end: the first condition
\* was false, the second true, the third was not evaluated, and the value of
\* the second arm was read at the join
C6_Witness ==
    /\ phase = "done"
    /\ hir = IfValue(<<FALSE, TRUE, TRUE>>)
    /\ out = << <<"a">>, <<"b">>, <<"2">>, <<"2">> >>

\* the loops of the expressions exprs[1..n], nested ones included
RECURSIVE LoopCount(_, _), LoopsIn(_)
LoopCount(exprs, n) ==
    IF n = 0 THEN 0 ELSE LoopCount(exprs, n - 1) + LoopsIn(exprs[n])

LoopsIn(e) ==
    CASE e.kind = "Loop" -> 1 + LoopCount(e.block, Len(e.block))
      [] e.kind = "Block" -> LoopCount(e.exprs, Len(e.exprs))
      [] e.kind = "If" ->
           LoopCount(e.els, Len(e.els))
           + LoopCount([i \in DOMAIN e.arms |-> HBlock(TUnit, e.arms[i].body)], Len(e.arms))
      [] OTHER -> 0

\* the loops of main in the MIR: <<header, last>> for every block last that
\* jumps back to a block header at or before it (block ids, 0-based)
MirLoops ==
    {<<MainOf(mir).blocks[i].terminator.target, i - 1>> :
       i \in {k \in 1..Len(MainOf(mir).blocks) :
                /\ MainOf(mir).blocks[k].terminator.t = "Goto"
                /\ MainOf(mir).blocks[k].terminator.target <= k - 1}}

Encloses(loop, k) == loop[1] <= k /\ k <= loop[2]

\* the innermost loops of block k
Innermost(k) ==
    {loop \in MirLoops :
       /\ Encloses(loop, k)
       /\ \A other \in MirLoops :
            Encloses(other, k) => other[2] - other[1] >= loop[2] - loop[1]}

\* C7: a break is a Goto to the block right after the innermost loop around
\* it: no jump leaves the innermost loop of its block but to the block that
\* follows the last block of that loop, whose last block jumps back to its
\* header; a break of an inner loop leaves the inner loop only, a break of
\* the outer loop placed before or after an inner loop leaves the outer loop
\* (every loop prints on entry, after its inner loop and after its end, and
\* what a run prints is what leaving the innermost loop prints)
C7_BreakLeavesInnermostLoop ==
    hir \in LoopPrograms =>
      /\ RunsAsMeant
      /\ Lowered =>
           /\ Cardinality(MirLoops) = LoopsIn(HBlock(TUnit, hir[Len(hir)].body))
           /\ \A loop \in MirLoops :
                /\ loop[1] > 0
                /\ MainOf(mir).blocks[loop[1]].terminator = Goto(loop[1])
                /\ loop[2] + 1 < Len(MainOf(mir).blocks)
                /\ \E k \in loop[1]..loop[2] :
                     /\ loop \in Innermost(k)
                     /\ MainOf(mir).blocks[k + 1].terminator = Goto(loop[2] + 1)
           /\ \A k \in 0..(Len(MainOf(mir).blocks) - 1) : \A loop \in Innermost(k) :
                \A target \in Targets(MainOf(mir).blocks[k + 1].terminator) :
                  loop[1] <= target /\ target <= loop[2] + 1

\* the outer loop was left by the break placed before its inner loop: the
\* inner loop, which has a break of its own, was not entered
C7_Witness ==
    /\ phase = "done"
    /\ hir \in LoopPrograms
    /\ Cardinality(MirLoops) = 2
    /\ \E l \in LoopNest(2) :
         /\ hir = Main(<<l, HPrintStr(<<"z">>), HUnit>>)
         /\ Len(l.block) > 2
         /\ l.block[2] = HIf(TUnit, <<HArm(Atom("p", TRUE), <<HBreak>>)>>, <<>>)
    /\ out = << <<"2">>, <<"p">>, <<"z">> >>

\* the while loop of a program of WhileSources and the loop it is lowered to
WhileOf(src) == src[Len(src)].body[2]
LoopOf(program) == program[Len(program)].body[2]

\* the example of the specification: let i = 0; while i < 3 { print_int(i); i = i + 1; }
\* with a condition that prints c every time it is evaluated
CountsToThree ==
    Main(<< HLet("i", HInt(0)),
            AstWhile(Counter("i", 3),
                     AstBlock(<<print_int(HIdent(TInt, "i")), Increment("i")>>, FALSE)),
            HPrintStr(<<"z">>), HUnit >>)

\* the same for a while loop whose body holds no further while loop
IsLoweredWhile0(loop, while) ==
    /\ loop.kind = "Loop"
    /\ loop.block =
         <<HIf(TUnit, <<HArm(HUnary(TBool, "Not", while.condition), <<HBreak>>)>>, <<>>)>>
         \o while.body.stmts
         \o (IF block_needs_terminating_unit(while.body) THEN <<HUnit>> ELSE <<>>)

\* the loop a while loop is lowered to: a one-armed if on the negated
\* condition whose body is a single break, then the lowered body
IsLoweredWhile(loop, while) ==
    /\ loop.kind = "Loop"
    /\ Len(loop.block) >= 1 + Len(while.body.stmts)
    /\ loop.block[1] = HIf(TUnit, <<HArm(HUnary(TBool, "Not", while.condition), <<HBreak>>)>>, <<>>)
    /\ \A i \in 1..Len(while.body.stmts) :
         IF while.body.stmts[i].kind = "While"
         THEN IsLoweredWhile0(loop.block[i + 1], while.body.stmts[i])
         ELSE loop.block[i + 1] = while.body.stmts[i]
    /\ \A i \in (Len(while.body.stmts) + 2)..Len(loop.block) : loop.block[i] = HUnit

\* the interpreter has a step to take: a statement to execute or a terminator
\* to dispatch on
CanStep ==
    \/ at_statement
    \/ at_terminator /\ top_block.terminator.t \in {"Goto", "Branch", "Return", "Abort"}

\* what the program counting to three prints
ZeroOneTwo == << <<"c">>, <<"0">>, <<"c">>, <<"1">>, <<"c">>, <<"2">>, <<"c">>, <<"z">> >>

\* C8: `while cond { body }` is lowered to Loop[If{!cond -> [Break]}, body...]
\* and the MIR of the lowered program runs as the while loop does: cond is
\* evaluated before every iteration, the body runs once for each evaluation
\* that yields true, the loop is left at the first that yields false; the
\* program counting to three prints 0, 1, 2 in three iterations and
\* terminates: its run always has a next step until it is done, and is done
\* within the step bound
C8_WhileLoop ==
    /\ \A src \in WhileSources :
         Len(hir[Len(hir)].body) = 4 /\ hir = lower_program(src) =>
           /\ IsLoweredWhile(LoopOf(hir), WhileOf(src))
           /\ RunsAs(src)
           /\ phase = "run" => CanStep
    /\ hir = lower_program(CountsToThree) =>
         /\ IsPrefix(out, ZeroOneTwo)
         /\ phase = "done" => out = ZeroOneTwo

\* the program counting to three has terminated after three iterations: the
\* condition was evaluated four times
C8_Witness ==
    /\ phase = "done"
    /\ hir = lower_program(CountsToThree)
    /\ out = ZeroOneTwo
    /\ steps < MaxSteps

\* the statements of main, a body of one block
MainStmts(m) == MainOf(m).blocks[1].statements

AllButLast(seq) == SubSeq(seq, 1, Len(seq) - 1)
LastOf(seq) == seq[Len(seq)]

\* the statements of main are those of the program assigning to the place,
\* but for the last, which binds a fresh local to operand
BindsInsteadOfAssigns(place, bound) ==
    /\ Len(MainStmts(mir)) = Len(MainStmts(lower_hir(AssignProgram(place))))
    /\ AllButLast(MainStmts(mir)) = AllButLast(MainStmts(lower_hir(AssignProgram(place))))
    /\ LastOf(MainStmts(mir)) = Assign(PlaceLocal(MainOf(mir).locals - 1), Use(bound))

\* the statements of main are those of the setup, then the two given
SetupThen(first, second) ==
    MainStmts(mir) =
      MainStmts(lower_hir(StructMain(RefSetup \o <<HUnit>>))) \o <<first, second>>

FreshLocal == MainOf(lower_hir(StructMain(RefSetup \o <<HUnit>>))).locals

\* C9: lowering Ref(Deref(e)) yields Operand::Place(p), p being the place
\* that place-lowering e yields (the place an assignment to e writes): the
\* trailing Deref is popped and no Operand::Ref is emitted; lowering Ref(e')
\* for any other e' yields Operand::Ref of the place of e', a fresh local
\* holding e' when e' is no place
C9_RefOfDeref ==
    Lowered =>
      /\ \A place \in RefPlaces :
           hir = RefProgram(DerefOf(place[1])) =>
             BindsInsteadOfAssigns(
               place, OPlace(LastOf(MainStmts(lower_hir(AssignProgram(place)))).place))
      /\ \A place \in PlainPlaces :
           hir = RefProgram(place[1]) =>
             BindsInsteadOfAssigns(
               place, ORef(LastOf(MainStmts(lower_hir(AssignProgram(place)))).place))
      /\ hir = RefProgram(HInt(5)) =>
           SetupThen(Assign(PlaceLocal(FreshLocal), Use(OConstant(CInt(5)))),
                     Assign(PlaceLocal(FreshLocal + 1), Use(ORef(PlaceLocal(FreshLocal)))))
      /\ hir = RefProgram(RefTo(HIdent(TInt, "x"))) =>
           SetupThen(Assign(PlaceLocal(FreshLocal), Use(ORef(PlaceLocal(0)))),
                     Assign(PlaceLocal(FreshLocal + 1), Use(ORef(PlaceLocal(FreshLocal)))))
      /\ hir = RefProgram(DerefOf(RefTo(HIdent(TInt, "x")))) =>
           SetupThen(Assign(PlaceLocal(FreshLocal), Use(ORef(PlaceLocal(0)))),
                     Assign(PlaceLocal(FreshLocal + 1), Use(OPlace(PlaceLocal(FreshLocal)))))

\* `let q = &*ar[i]` has been lowered: q is bound to the place ar[i] itself,
\* an Index projection on the array of references, with no Deref and no Ref
C9_Witness ==
    /\ phase = "mir"
    /\ \E place \in RefPlaces :
         /\ place[1].kind = "Index"
         /\ hir = RefProgram(DerefOf(place[1]))
    /\ LastOf(MainStmts(mir)).rvalue.operand.o = "Place"
    /\ Len(LastOf(MainStmts(mir)).rvalue.operand.place.projections) = 1
    /\ LastOf(MainStmts(mir)).rvalue.operand.place.projections[1].p = "Index"

\* a value with the fields of a struct in place of their cells; references
\* and arrays are the cells they share
RECURSIVE Contents(_, _)
Contents(h, value) ==
    IF value.k = "Struct"
    THEN [k |-> "Struct", fields |-> [i \in 1..Len(value.cells) |-> Contents(h, h[value.cells[i]])]]
    ELSE value

\* in StoredRefProgram the last statement of main that stores a reference
\* binds t, the next binds v and the last binds u
IsRefStore(stmt) == stmt.rvalue.r = "Use" /\ stmt.rvalue.operand.o = "Ref"
StoredAt ==
    CHOOSE i \in 1..Len(MainStmts(mir)) :
      /\ IsRefStore(MainStmts(mir)[i])
      /\ \A j \in (i + 1)..Len(MainStmts(mir)) : ~IsRefStore(MainStmts(mir)[j])
StoredRef == MainStmts(mir)[StoredAt]
InMainPast(n) == phase = "run" /\ Len(frames) = 1 /\ top.block = 0 /\ top.stmt > n
LocalValue(l) == heap[top.locals[l + 1]]

\* C10: for every place x, *&x is x.  Lowering `*&x` gives Operand::Place(p)
\* where lowering `&x` gives Operand::Ref(p).  In the interpreter, once
\* Operand::Ref(p) is stored in a local t, reading Place{t, [Deref]} gives
\* what reading Operand::Place(p) gives, and the locals bound to `*t` and to
\* `x` hold the same value, whether x is a scalar, a struct, an array or a
\* reference
C10_DerefOfRef ==
    \A place \in PlainPlaces :
      /\ Lowered /\ hir = DerefOfRefProgram(place[1]) =>
           /\ Len(MainStmts(mir)) = Len(MainStmts(lower_hir(RefProgram(place[1]))))
           /\ AllButLast(MainStmts(mir))
                = AllButLast(MainStmts(lower_hir(RefProgram(place[1]))))
           /\ LastOf(MainStmts(lower_hir(RefProgram(place[1])))).rvalue.operand.o = "Ref"
           /\ LastOf(MainStmts(mir))
                = Assign(LastOf(MainStmts(lower_hir(RefProgram(place[1])))).place,
                         Use(OPlace(LastOf(MainStmts(lower_hir(RefProgram(place[1]))))
                                      .rvalue.operand.place)))
      /\ hir = StoredRefProgram(place[1]) =>
           /\ phase \notin {"lower_panic", "panic", "abort"}
           /\ Lowered =>
                /\ StoredRef.place = PlaceLocal(MainOf(lower_hir(RefProgram(place[1]))).locals - 1)
                /\ StoredRef.rvalue = LastOf(MainStmts(lower_hir(RefProgram(place[1])))).rvalue
                /\ MainStmts(mir)[StoredAt + 1].place.projections = <<>>
                /\ MainStmts(mir)[StoredAt + 1].rvalue
                     = Use(OPlace(Place(StoredRef.place.local, <<Deref>>)))
           /\ InMainPast(StoredAt) =>
                /\ LocalValue(StoredRef.place.local).k = "Ref"
                /\ operand(heap, top.locals, OPlace(Place(StoredRef.place.local, <<Deref>>))).ok
                /\ operand(heap, top.locals, OPlace(Place(StoredRef.place.local, <<Deref>>)))
                     = operand(heap, top.locals, OPlace(StoredRef.rvalue.operand.place))
           /\ InMainPast(Len(MainStmts(mir))) =>
                Contents(heap, LocalValue(MainStmts(mir)[StoredAt + 1].place.local))
                  = Contents(heap, LocalValue(LastOf(MainStmts(mir)).place.local))

\* `let t = &p; let v = *t; let u = p` has run for the struct p: v and u are
\* two copies of p, in cells of their own, with the fields of p
C10_Witness ==
    /\ hir = StoredRefProgram(HIdent(Point, "p"))
    /\ InMainPast(Len(MainStmts(mir)))
    /\ LocalValue(MainStmts(mir)[StoredAt + 1].place.local).k = "Struct"
    /\ LocalValue(MainStmts(mir)[StoredAt + 1].place.local)
         # LocalValue(LastOf(MainStmts(mir)).place.local)
    /\ Contents(heap, LocalValue(LastOf(MainStmts(mir)).place.local))
         = [k |-> "Struct", fields |-> <<VInt(3), VInt(4)>>]

\* the HIR block bound by the last statement of main
BoundBlock == LastOf(LastOf(hir).body).expr

LoweredStmts(block) == [i \in 1..Len(block.stmts) |-> lower_ast(block.stmts[i])]

EndsInValue(block) ==
    /\ ~block.is_expr
    /\ block.stmts # <<>>
    /\ LastOf(block.stmts).ty # TUnit

\* C11: a block without a trailing expression whose last statement is not of
\* type unit is lowered to its statements followed by exactly one
\* Literal(Unit), has HIR type Unit, and its MIR r-value is
\* Use(Constant::Unit); a block with a trailing expression is lowered to its
\* statements alone and has the type of the last of them; either way the
\* program runs as its statements mean
C11_TerminatingUnit ==
    \A block \in SourceBlocks :
      Len(LastOf(hir).body) = 2 /\ hir = lower_program(BlockSource(block)) =>
        /\ BoundBlock.kind = "Block"
        /\ RunsAsMeant
        /\ EndsInValue(block) =>
             /\ BoundBlock.exprs = LoweredStmts(block) \o <<HUnit>>
             /\ BoundBlock.exprs[Len(block.stmts)] # HUnit
             /\ BoundBlock.ty = TUnit
             /\ Lowered =>
                  LastOf(MainStmts(mir))
                    = Assign(PlaceLocal(MainOf(mir).locals - 1), Use(OConstant(CUnit)))
        /\ ~EndsInValue(block) => BoundBlock.exprs = LoweredStmts(block)
        /\ block.is_expr =>
             /\ BoundBlock.ty = LastOf(block.stmts).ty
             /\ BoundBlock.ty # TUnit /\ Lowered =>
                  LastOf(MainStmts(mir)).rvalue # Use(OConstant(CUnit))

\* `let v = { print_int(1); 5; }` has run: 1 was printed and v was bound to unit
C11_Witness ==
    /\ phase = "done"
    /\ hir = lower_program(BlockSource(AstBlock(<<print_int(HInt(1)), HInt(5)>>, FALSE)))
    /\ BoundBlock.exprs = <<print_int(HInt(1)), HInt(5), HUnit>>
    /\ LastOf(MainStmts(mir)).rvalue = Use(OConstant(CUnit))
    /\ out = <<<<"1">>>>

AtAbort == at_terminator /\ top_block.terminator.t = "Abort"

\* C13: when the interpreter reaches a block ending in Abort, at any call
\* depth, the run ends there with the failure outcome: the statements of
\* that block have run, the step at its terminator ends the run, nothing is
\* printed or stored after it and no caller resumes; a run that meets no
\* Abort and returns from main ends with the normal outcome, every level
\* having printed what it prints after its call
C13_AbortEndsRun ==
    /\ [](\A depth \in 1..MaxDepth, form \in AbortForms :
            hir = AbortProgram(depth, form) =>
              /\ phase \notin {"lower_panic", "panic"}
              /\ steps < MaxSteps
              /\ IsPrefix(out, AbortOutput(depth, form))
              /\ phase = "run" => CanStep
              /\ AtAbort => form.reached /\ Len(frames) = depth
              /\ phase = "abort" =>
                   /\ form.reached
                   /\ out = AbortOutput(depth, form)
                   /\ Len(frames) = depth
                   /\ ret = None
              /\ phase = "done" => ~form.reached /\ out = AbortOutput(depth, form))
    /\ [][/\ AtAbort => phase' = "abort" /\ UNCHANGED <<frames, heap, out, ret>>
          /\ phase' = "abort" => AtAbort
          /\ phase # "abort"]_vars

\* the function called by the function main calls has met abort in the arm
\* of its if: three calls are open and none of them has gone on
C13_Witness ==
    /\ phase = "abort"
    /\ \E form \in AbortForms :
         /\ form.prints = <<<<"t">>>>
         /\ hir = AbortProgram(3, form)
    /\ Len(frames) = 3
    /\ out = <<<<"1">>, <<"2">>, <<"3">>, <<"t">>>>

\* the cells of the fields of a struct value, and of the structs in them
RECURSIVE FieldCells(_, _)
FieldCells(h, value) ==
    IF value.k = "Struct"
    THEN Range(value.cells) \union UNION {FieldCells(h, h[c]) : c \in Range(value.cells)}
    ELSE {}

\* in a CopyProgram the first statement of main that reads a place binds b
IsCopy(stmt) == stmt.rvalue.r = "Use" /\ stmt.rvalue.operand.o = "Place"
CopyAt ==
    CHOOSE i \in 1..Len(MainStmts(mir)) :
      /\ IsCopy(MainStmts(mir)[i])
      /\ \A j \in 1..(i - 1) : ~IsCopy(MainStmts(mir)[j])
CopySource == load_place(heap, top.locals, MainStmts(mir)[CopyAt].rvalue.operand.place)[1]
CopyTarget == top.locals[MainStmts(mir)[CopyAt].place.local + 1]

\* C14: reading a place copies its value, but for arrays and references.
\* Once `b := a` has run: if a holds a struct, b holds the same contents in
\* cells of its own at every depth of nesting, so that writing any field
\* cell of b changes no field of a; if a holds an array, b holds the same
\* buffer and an element pushed through b is the last element of a; if a
\* holds a reference, or a struct with one in a field, b designates the same
\* cell.  The programs then write through b and read the source: the source
\* prints the written value exactly when it shares it with b
C14_CopyByValue ==
    \A c \in CopyCases :
      hir = CopyProgram(c) =>
        /\ phase \notin {"lower_panic", "panic", "abort"}
        /\ steps < MaxSteps
        /\ IsPrefix(out, <<IF c.shared THEN <<"9">> ELSE <<c.old>>, <<"9">>>>)
        /\ phase = "done" => Len(out) = 2
        /\ InMainPast(CopyAt) /\ top.stmt = CopyAt + 1 =>
             /\ CopyTarget # CopySource
             /\ Contents(heap, heap[CopyTarget]) = Contents(heap, heap[CopySource])
             /\ heap[CopySource].k = "Struct" =>
                  /\ FieldCells(heap, heap[CopyTarget]) # {}
                  /\ \A cell \in FieldCells(heap, heap[CopyTarget]) :
                       /\ cell \notin FieldCells(heap, heap[CopySource])
                       /\ Contents([heap EXCEPT ![cell] = VInt(99)], heap[CopySource])
                            = Contents(heap, heap[CopySource])
             /\ heap[CopySource].k = "Array" =>
                  /\ heap[CopyTarget] = heap[CopySource]
                  /\ \E pushed \in {binary_value(heap, "ArrayPush", VRef(CopyTarget), VInt(9))} :
                       /\ pushed.ok
                       /\ Len(pushed.h[pushed.h[CopySource].buf].elems)
                            = Len(heap[heap[CopySource].buf].elems) + 1
                       /\ pushed.h[LastOf(pushed.h[pushed.h[CopySource].buf].elems)] = VInt(9)
             /\ heap[CopySource].k = "Ref" => heap[CopyTarget] = heap[CopySource]

\* the struct of structs l was copied to b and b.1.0 was written: l.1.0
\* still prints 3 and b.1.0 prints 9
C14_Witness ==
    /\ phase = "done"
    /\ \E c \in CopyCases :
         /\ c.src = HIdent(Line, "l")
         /\ hir = CopyProgram(c)
    /\ out = <<<<"3">>, <<"9">>>>

\* the cell a place of the top frame designates
Designated(h, fs, place) == load_place(h, fs[Len(fs)].locals, place)[1]

\* an assignment of the top frame has run: the frame is at its next
\* statement and the destination, resolved after the r-value was evaluated,
\* holds the value the r-value had before the write
AssignHasRun ==
    /\ frames' = [frames EXCEPT ![Len(frames)].stmt = @ + 1]
    /\ heap'[Designated(heap', frames', statement.place)]
         = rvalue(heap, out, top.locals, statement.rvalue).v

\* a call has begun: the caller stays at its Assign, nothing is written to
\* the cells there were, and the callee starts at its first statement
CallHasBegun ==
    /\ SubSeq(frames', 1, Len(frames)) = frames
    /\ SubSeq(heap', 1, Len(heap)) = heap
    /\ frames'[Len(frames')].block = 0
    /\ frames'[Len(frames')].stmt = 1

\* a callee has returned: the caller's pending Assign is done, its
\* destination resolved in the heap the callee left
ReturnHasRun ==
    LET caller == frames[Len(frames) - 1]
        pending == mir.bodies[caller.body + 1].blocks[caller.block + 1].statements[caller.stmt]
    IN  /\ pending.rvalue.r = "Call"
        /\ frames' = [SubSeq(frames, 1, Len(frames) - 1) EXCEPT ![Len(frames) - 1].stmt = @ + 1]
        /\ heap'[Designated(heap, frames', pending.place)]
             = operand(heap, top.locals, top_block.terminator.operand).v

\* the Assign of main whose r-value reads or moves its destination
IsSelfAssign(stmt) ==
    \/ /\ stmt.rvalue.r = "BinaryExpr"
       /\ stmt.rvalue.lhs = OPlace(stmt.place)
    \/ /\ stmt.rvalue.r = "Call"
       /\ \E arg \in Range(stmt.rvalue.args) :
            /\ arg.o = "Ref"
            /\ arg.place.projections = <<>>
            /\ \/ arg.place.local = stmt.place.local
               \/ Index(arg.place.local) \in Range(stmt.place.projections)

\* C15: the statements of a block run in program order, one at a step, and
\* an Assign evaluates its r-value completely, a whole run of the callee
\* for a Call, before its destination is resolved and written: x = x + 1
\* reads the x from before the write, a callee reads the destination as it
\* was, and a destination the callee moved is written where it then is
C15_RValueBeforePlace ==
    /\ [](\A c \in OrderCases :
            hir = OrderProgram(c) =>
              /\ phase \notin {"lower_panic", "panic", "abort"}
              /\ steps < MaxSteps
              /\ IsPrefix(out, c.prints)
              /\ phase = "done" => out = c.prints
              /\ Lowered => \E stmt \in Range(MainStmts(mir)) : IsSelfAssign(stmt))
    /\ [][/\ at_statement /\ statement.rvalue.r # "Call" /\ phase' = "run" => AssignHasRun
          /\ at_statement /\ statement.rvalue.r = "Call" /\ phase' = "run" => CallHasBegun
          /\ at_terminator /\ top_block.terminator.t = "Return" /\ phase' = "run"
               => ReturnHasRun]_vars

\* *r = retarget(&r, &y) has run: the 7 went to y, where the callee pointed
\* r, and x is as it was
C15_Witness ==
    /\ phase = "done"
    /\ \E c \in OrderCases : hir = OrderProgram(c)
    /\ out = <<<<"1">>, <<"7">>>>
    /\ \E stmt \in Range(MainStmts(mir)) :
         stmt.place.projections = <<Deref>> /\ stmt.rvalue.r = "Call"

\* the lines Shadows(c) prints: the x of the block, the x of main, the x of
\* the arm taken, the x of main, the x bound last
ShadowPrints(c) == << <<"2">>, <<"1">>, <<IF c THEN "3" ELSE "4">>, <<"1">>, <<"5">> >>

\* the body that was lowered from the function of that name
BodyNamed(m, name) == CHOOSE b \in Range(m.bodies) : b.name = Some(name)

\* the functions a body calls, and the operands its r-values use as they are
Callees(body) ==
    UNION {{stmt.rvalue.function : stmt \in {x \in Range(blk.statements) : x.rvalue.r = "Call"}}
          : blk \in Range(body.blocks)}

UsedOperands(body) ==
    UNION {UNION {(IF stmt.rvalue.r = "BinaryExpr"
                   THEN {stmt.rvalue.lhs, stmt.rvalue.rhs} ELSE {})
                 : stmt \in Range(blk.statements)}
          : blk \in Range(body.blocks)}

\* the nested function g calls nothing but top-level x or its sibling h
NamesNoLocal(m) ==
    \A callee \in Callees(BodyNamed(m, "g")) :
        /\ callee.o = "Constant"
        /\ callee.c.c = "Func"
        /\ m.bodies[callee.c.body + 1].name \in {Some("x"), Some("h")}

\* C16: a variable name resolves to the local of the innermost scope of the
\* current body that binds it, a binding of a block or an if-arm ends with
\* it, a name the current body does not bind resolves to the nearest
\* function of that name in the enclosing bodies, and a nested function
\* never gets a local of the function around it: where only that local has
\* the name, lower() fails
C16_IdentResolution ==
    /\ \A c \in BOOLEAN :
         hir = Shadows(c) =>
           /\ phase \notin {"lower_panic", "panic", "abort"}
           /\ IsPrefix(out, ShadowPrints(c))
           /\ phase = "done" => out = ShadowPrints(c)
    /\ \A c \in NameCases :
         hir = NameProgram(c) =>
           /\ phase \notin {"panic", "abort"}
           /\ steps < MaxSteps
           /\ phase # "hir" => (c.lowers <=> phase # "lower_panic")
           /\ IsPrefix(out, c.prints)
           /\ phase = "done" => out = c.prints
           /\ Lowered /\ (\E b \in Range(mir.bodies) : b.name = Some("g"))
                => NamesNoLocal(mir)

\* outer(1) has run: g, nested in outer, called the function x and outer
\* added its parameter x
C16_Witness ==
    /\ phase = "done"
    /\ \E c \in NameCases : hir = NameProgram(c) /\ c.prints = <<<<"8">>>>
    /\ out = <<<<"8">>>>
    /\ NamesNoLocal(mir)
    /\ Callees(BodyNamed(mir, "g")) # {}
    /\ OPlace(PlaceLocal(0)) \in UsedOperands(BodyNamed(mir, "outer"))

\* lower() has failed on the nested function that names only a parameter
\* of the function around it
C16_WitnessPanic ==
    /\ phase = "lower_panic"
    /\ \E c \in NameCases : hir = NameProgram(c) /\ ~c.lowers

\* the struct ids of a type: its own and those of its fields, at any depth
RECURSIVE StructIds(_)
StructIds(ty) ==
    IF ty.k = "Struct"
    THEN {ty.id} \union UNION {StructIds(ty.fields[i]) : i \in 1..Len(ty.fields)}
    ELSE IF ty.k = "Ref" THEN StructIds(ty.of)
    ELSE {}

\* the formatter bodies the statements of a body call
FormatterCalls(body) ==
    {callee.c.body : callee \in {f \in Callees(body) : f.o = "Constant" /\ f.c.c = "Func"}}
      \cap {b - 1 : b \in Formatters}

\* C17: one lowering run has at most one formatter body for each struct id:
\* formatting one value at several sites calls one BodyId from all of them,
\* and there are no more formatter bodies than struct ids to format
C17_FormatterPerStruct ==
    \A binding \in SiteValues, n \in 1..MaxSites :
        hir = SiteProgram(binding, n) /\ Lowered =>
          /\ Cardinality(FormatterCalls(MainOf(mir))) = 1
          /\ Cardinality(Formatters) <= Cardinality(StructIds(TypeOfLet(binding)))

\* the text of the value each binding of StructValues binds
ShownAs(ty) ==
    CASE ty = Empty -> <<"(", ")">>
      [] ty = Flag -> <<"(", "t", "r", "u", "e", ")">>
      [] ty = Point -> <<"(", "1", ",", " ", "2", ")">>
      [] ty = Line -> <<"(", "(", "1", ",", " ", "2", ")", ",", " ",
                        "(", "3", ",", " ", "4", ")", ")">>
      [] ty = Wrap -> <<"(", "(", "5", ",", " ", "6", ")", ",", " ", "7", ")">>

RECURSIVE StripRefs(_)
StripRefs(ty) == IF ty.k = "Ref" THEN StripRefs(ty.of) ELSE ty

IsPush(stmt) == stmt.rvalue.r = "BinaryExpr" /\ stmt.rvalue.op = "ArrayPush"

\* the number of strings of a formatter of n fields: as the code computes
\* it, or 2*n+1 for every n
Parts(n, always_odd) == IF always_odd THEN 2 * n + 1 ELSE n + saturating_sub(n, 1) + 2

\* the formatter body b of m has the layout of a formatter of struct type ty
RECURSIVE Layout(_, _, _, _)
Layout(m, b, ty, always_odd) ==
    LET body == m.bodies[b + 1]
        stmts == body.blocks[1].statements
        n == Len(ty.fields)
        parts == Parts(n, always_odd)
        pushes == {i \in 1..Len(stmts) : IsPush(stmts[i])}
        Nth(k) == CHOOSE i \in pushes : Cardinality({j \in pushes : j <= i}) = k
        Pushed(k) == stmts[Nth(k)].rvalue.rhs
    IN  /\ body.params = 1
        /\ Len(body.blocks) = 1
        /\ stmts[1] = Assign(PlaceLocal(1), Use(OConstant(CEmptyArray(parts))))
        /\ Cardinality(pushes) = parts
        /\ \A i \in pushes : stmts[i].rvalue.lhs = ORef(PlaceLocal(1))
        /\ Nth(1) = 2
        /\ Pushed(1) = OConstant(CStr(<<"(">>))
        /\ Pushed(parts) = OConstant(CStr(<<")">>))
        /\ \A i \in 0..(n - 1) :
             LET segment == (Nth(2 * i + 1) + 1)..Nth(2 * i + 2)
                 reads == {place \in UNION {UNION {OperandPlaces(o) :
                                                     o \in RValueOperands(stmts[j].rvalue)} :
                                            j \in segment} : place.local = 0}
                 field_ty == StripRefs(ty.fields[i + 1])
             IN  /\ i > 0 => /\ Pushed(2 * i + 1) = OConstant(CStr(<<",", " ">>))
                             /\ Nth(2 * i + 1) = Nth(2 * i) + 1
                 /\ reads # {}
                 /\ \A place \in reads :
                      /\ Len(place.projections) >= 2
                      /\ SubSeq(place.projections, 1, 2) = <<Deref, Field(i)>>
                 /\ \/ Pushed(2 * i + 2) \in {OPlace(place) : place \in reads}
                    \/ \E j \in segment : /\ j + 1 = Nth(2 * i + 2)
                                          /\ Pushed(2 * i + 2) = OPlace(stmts[j].place)
                 /\ field_ty.k = "Struct" =>
                      \E j \in segment :
                        /\ stmts[j].rvalue.r = "Call"
                        /\ stmts[j].rvalue.function.o = "Constant"
                        /\ stmts[j].rvalue.function.c.body + 1
                             \in {f \in 1..Len(m.bodies) : f > 1 /\ m.bodies[f].name = None}
                        /\ Layout(m, stmts[j].rvalue.function.c.body, field_ty, always_odd)
        /\ Len(stmts) = Nth(parts) + 1
        /\ LastOf(stmts).rvalue = UnaryExpr("StrJoin", OLocal(1))
        /\ body.blocks[1].terminator = Return(OPlace(LastOf(stmts).place))

FormattersLaidOut(always_odd) ==
    \A binding \in SiteValues, n \in 1..MaxSites :
        hir = SiteProgram(binding, n) =>
          /\ phase \notin {"lower_panic", "panic", "abort"}
          /\ steps < MaxSteps
          /\ IsPrefix(out, [i \in 1..n |-> ShownAs(TypeOfLet(binding))])
          /\ phase = "done" => Len(out) = n
          /\ Lowered =>
               /\ FormatterCalls(MainOf(mir)) # {}
               /\ \A f \in FormatterCalls(MainOf(mir)) :
                    Layout(mir, f, TypeOfLet(binding), always_odd)

\* C18 as stated: the formatter of a struct of n >= 0 fields reserves an
\* array of capacity 2*n+1 and pushes that many strings: "(", for each field
\* ", " (not before the first) and the formatted field read through
\* Deref, Field(i) of local 0, then ")", and returns their concatenation
C18_FormatterLayoutOdd == FormattersLaidOut(TRUE)

\* C18 amended: the capacity and the number of strings pushed are
\* n + max(n - 1, 0) + 2, that is 2*n+1 for n >= 1 and 2 for n = 0, where
\* "(" and ")" are pushed and "()" is returned; the order is as stated
C18_FormatterLayout == FormattersLaidOut(FALSE)

\* "((5, 6), 7)" has been printed: the formatter of Wrap called the
\* formatter of P through the reference in field 0
C18_Witness ==
    /\ phase = "done"
    /\ \E n \in 1..MaxSites, binding \in SiteValues :
         hir = SiteProgram(binding, n) /\ TypeOfLet(binding) = Wrap
    /\ out # <<>>
    /\ out[1] = ShownAs(Wrap)

\* "()" has been printed by the formatter of the struct without fields,
\* which reserved 2 strings
C18_WitnessEmpty ==
    /\ phase = "done"
    /\ out # <<>>
    /\ out[1] = ShownAs(Empty)
    /\ \E n \in 1..MaxSites, binding \in SiteValues :
         /\ hir = SiteProgram(binding, n)
         /\ TypeOfLet(binding) = Empty
         /\ \A f \in FormatterCalls(MainOf(mir)) :
              mir.bodies[f + 1].blocks[1].statements[1].rvalue
                = Use(OConstant(CEmptyArray(2)))

\* what a program of FaultPrograms prints when its statement does not fault
FaultFree(c) == <<<<"1">>>> \o c.shows[1] \o <<<<"2">>>>

\* C19: a division or remainder by zero, an array or string index outside
\* the bounds or negative, a slice outside the string, a find or rfind of
\* a needle that does not occur and a chr outside the range each end the
\* run in a panic: the statement yields no value, nothing is written, no
\* statement runs after it
C19_RuntimeErrorsAreFatal ==
    /\ [](\A c \in FaultCases :
            hir = FaultProgram(c) =>
              /\ phase \notin {"lower_panic", "abort"}
              /\ steps < MaxSteps
              /\ phase = "run" => CanStep
              /\ c.shows = None =>
                   /\ phase # "done"
                   /\ IsPrefix(out, <<<<"1">>>>)
                   /\ phase = "panic" => out = <<<<"1">>>> /\ ret = None
              /\ c.shows # None =>
                   /\ phase # "panic"
                   /\ IsPrefix(out, FaultFree(c))
                   /\ phase = "done" => out = FaultFree(c))
    /\ [][/\ phase # "panic"
          /\ phase' = "panic" => UNCHANGED <<frames, heap, out, ret>>]_vars

\* str_find(s, "x") has ended the run after the 1 was printed
C19_Witness ==
    /\ phase = "panic"
    /\ hir = FaultProgram(Faulting(print_int(Find("str_find", <<"x">>))))
    /\ out = <<<<"1">>>>
    /\ statement.rvalue = BinaryExpr(statement.rvalue.lhs, "StrFind", statement.rvalue.rhs)

\* a literal read as the escape rule says: `/` and the character after it
\* stand for that character, an unescaped `${` opens an interpolation up to
\* its `}`, every other character stands for itself; None for a literal
\* that ends in an unescaped `/` or whose interpolation is no identifier
\* followed by `}`
RECURSIVE Read(_, _, _, _)
Read(raw, i, text, segments) ==
    LET pending == IF text # <<>> THEN Append(segments, LitStr(text)) ELSE segments
        ident == ident_from(raw, i + 2)
        after == i + 2 + Len(ident)
    IN  IF i > Len(raw)
        THEN Some(IF segments = <<>> THEN LitStr(text) ELSE LitFStr(pending))
        ELSE IF raw[i] = "/"
        THEN IF i = Len(raw) THEN None
             ELSE Read(raw, i + 2, Append(text, raw[i + 1]), segments)
        ELSE IF raw[i] = "$" /\ i < Len(raw) /\ raw[i + 1] = "{"
        THEN IF ident # <<>> /\ after <= Len(raw) /\ raw[after] = "}"
             THEN Read(raw, after + 1, <<>>, Append(pending, SegIdent(ident)))
             ELSE None
        ELSE Read(raw, i + 1, Append(text, raw[i]), segments)

HasEscape(raw) == \E i \in 1..(Len(raw) - 1) : raw[i] = "/"

Returned == parser.result # None

\* C20: parse_string returns, without error, what the escape rule says:
\* the character after a `/` is taken literally and `/${` opens no
\* interpolation; a literal without an unescaped `${` gives Lit::Str, any
\* other Lit::FStr with its segments in source order
C20_EscapedCharIsLiteral ==
    Returned /\ Read(parser.raw, 1, <<>>, <<>>) # None =>
        parser.result = Read(parser.raw, 1, <<>>, <<>>)

\* what does hold: a literal without `/` is parsed as written, and
\* parse_string panics at the character after every `/` it reaches
SlashEndsInPanic ==
    /\ Returned /\ Read(parser.raw, 1, <<>>, <<>>) # None /\ ~HasEscape(parser.raw) =>
         parser.result = Read(parser.raw, 1, <<>>, <<>>)
    /\ Returned /\ Read(parser.raw, 1, <<>>, <<>>) # None /\ HasEscape(parser.raw) =>
         parser.result = Some(Panicked)

\* parse_string has returned Lit::FStr for a${a}a
ParsedInterpolation ==
    /\ parser.raw = <<"a", "$", "{", "a", "}">>
    /\ parser.result = Some(LitFStr(<<LitStr(<<"a">>), SegIdent(<<"a">>)>>))

IsUninitStruct(stmt) ==
    /\ stmt.rvalue.r = "Use"
    /\ stmt.rvalue.operand.o = "Constant"
    /\ stmt.rvalue.operand.c.c = "UninitStruct"

\* the statements of the first block of body from the k-th on are those of a
\* StructInit: UninitStruct{size: params} into a local no earlier statement
\* names, then field i from local i for each i below params, and no
\* further assignment of a parameter to a field of that local
StructInitAt(body, k) ==
    LET stmts == body.blocks[1].statements
        n == body.params
        s == stmts[k].place.local
    IN  /\ stmts[k] = Assign(PlaceLocal(s), Use(OConstant(CUninitStruct(n))))
        /\ s >= n
        /\ \A j \in 1..(k - 1) : stmts[j].place.local # s
        /\ Len(stmts) >= k + n
        /\ \A i \in 0..(n - 1) :
             stmts[k + 1 + i] = Assign(Place(s, <<Field(i)>>), Use(OLocal(i)))
        /\ \A j \in (k + n + 1)..Len(stmts) :
             ~(/\ stmts[j].place.local = s
               /\ stmts[j].place.projections # <<>>
               /\ stmts[j].rvalue.r = "Use"
               /\ stmts[j].rvalue.operand.o = "Place"
               /\ stmts[j].rvalue.operand.place.local < n)

\* the bodies lowered from a function whose statements hold a StructInit
HoldsStructInit(e) ==
    /\ e.kind = "FnDecl"
    /\ \E i \in 1..Len(e.body) :
         \/ e.body[i].kind = "StructInit"
         \/ e.body[i].kind = "Let" /\ e.body[i].expr.kind = "StructInit"

Constructors == {e.ident : e \in {d \in Range(hir) : HoldsStructInit(d)}}

\* the top frame has just run the statements of a StructInit that starts
\* at statement k of its first block
StructInitDone(k) ==
    /\ phase = "run"
    /\ top.block = 0
    /\ k <= Len(top_block.statements)
    /\ IsUninitStruct(top_block.statements[k])
    /\ top.stmt = k + top_body.params + 1

RECURSIVE RefLayers(_)
RefLayers(ty) == IF ty.k = "Ref" THEN 1 + RefLayers(ty.of) ELSE 0

\* the local of the parameter an identifier of IndexParams names
ParamLocal(ident) == (CHOOSE n \in 1..Len(IndexParams) : IndexParams[n].ident = ident) - 1

\* the statements end in the binding of x to the form of index expression
\* the indexee's type, all Ref layers taken off, and the index select
IndexedByType(c, stmts) ==
    LET rv == LastOf(stmts).rvalue
        ty == StripRefs(c[1].ty)
        layers == RefLayers(c[1].ty)
    IN  IF ty.k = "Str"
        THEN /\ rv.r = "BinaryExpr"
             /\ rv.op = IF is_range(c[2].ty) THEN "StrIndexSlice" ELSE "StrIndex"
        ELSE IF is_range(c[2].ty)
        THEN rv.r = "BinaryExpr" /\ rv.op = "ArrayIndexRange"
        ELSE /\ rv.r = "Use" /\ rv.operand.o = "Place"
             /\ rv.operand.place.local = ParamLocal(c[1].ident)
             /\ Len(rv.operand.place.projections) = layers + 1
             /\ \A n \in 1..layers : rv.operand.place.projections[n] = Deref
             /\ LET last == rv.operand.place.projections[layers + 1]
                IN  IF c[2].kind = "Literal" /\ c[2].lit.v >= 0
                    THEN last = ConstantIndex(c[2].lit.v)
                    ELSE /\ last.p = "Index"
                         /\ IF c[2].kind = "Ident"
                            THEN last.l = ParamLocal(c[2].ident)
                            ELSE /\ Len(stmts) = 2
                                 /\ stmts[1] = Assign(PlaceLocal(last.l),
                                                      Use(OConstant(CInt(c[2].lit.v))))

IndexLowered(c) == hir = IndexProgram(c) /\ phase # "hir"

\* C22: an index expression is lowered by the type of its indexee with all
\* Ref layers taken off: a string by a range to StrIndexSlice and by an
\* integer to StrIndex, an array by a range to ArrayIndexRange, by a literal
\* that fits u32 to a place ending in ConstantIndex(n) and by anything else
\* to a place ending in Index(l), the Ref layers being Deref projections;
\* lowering panics on none of them
C22_IndexForm ==
    \A c \in IndexCases :
      IndexLowered(c) =>
        /\ phase # "lower_panic"
        /\ IndexedByType(c, BodyNamed(mir, "f").blocks[1].statements)

\* what holds instead: the form is selected as stated unless the indexee is
\* a reference to a string; a reference to a string is taken for an array,
\* by a range it is lowered to ArrayIndexRange and by an integer lowering
\* panics
IndexFormByOuterType ==
    \A c \in IndexCases :
      IndexLowered(c) =>
        IF is_str(StripRefs(c[1].ty)) /\ ~is_str(c[1].ty)
        THEN IF is_range(c[2].ty)
             THEN /\ phase # "lower_panic"
                  /\ LastOf(BodyNamed(mir, "f").blocks[1].statements).rvalue.op
                       = "ArrayIndexRange"
             ELSE phase = "lower_panic"
        ELSE /\ phase # "lower_panic"
             /\ IndexedByType(c, BodyNamed(mir, "f").blocks[1].statements)

\* a twofold reference to an array has been indexed by a negative literal
IndexedThroughRefs ==
    /\ \E c \in IndexCases :
         /\ IndexLowered(c)
         /\ c[1].ident = "rra" /\ c[2].kind = "Literal" /\ c[2].lit.v < 0
    /\ phase = "done"

HasDeref(place) == \E n \in 1..Len(place.projections) : place.projections[n] = Deref

\* a call has pushed its frame: the callee stands at the first statement of
\* block 0 on body.locals cells that did not exist before, the first holding
\* the arguments and the others Unit
FrameIsFresh ==
    LET new == frames'[Len(frames')]
        callee == operand(heap, top.locals, statement.rvalue.function).v.v
        args == operands(heap, top.locals, statement.rvalue.args, 1, <<>>)
    IN  /\ statement.rvalue.r = "Call"
        /\ SubSeq(frames', 1, Len(frames)) = frames
        /\ SubSeq(heap', 1, Len(heap)) = heap
        /\ new.body = callee /\ new.block = 0 /\ new.stmt = 1
        /\ Len(new.locals) = mir.bodies[callee + 1].locals
        /\ Cardinality(Range(new.locals)) = Len(new.locals)
        /\ \A i \in 1..Len(new.locals) :
             /\ new.locals[i] > Len(heap)
             /\ IF i <= Len(args.v)
                THEN Contents(heap', heap'[new.locals[i]]) = Contents(args.h, args.v[i])
                ELSE heap'[new.locals[i]] = VUnit

\* the locals of the frames below the top frame, up to the frame at upto,
\* hold what they held, but for the local written of the frame at upto
\* and for writes through a Deref
CallersKeep(upto, written, place) ==
    \A i \in 1..upto :
      \A l \in 1..Len(frames[i].locals) :
        Contents(heap', heap'[frames[i].locals[l]]) # Contents(heap, heap[frames[i].locals[l]])
          => \/ HasDeref(place)
             \/ i = upto /\ written = l - 1

\* a callee has returned: its caller's destination holds the value of the
\* Return operand and the caller's other locals hold what they held
ReturnIsStored ==
    LET caller == frames[Len(frames) - 1]
        pending == mir.bodies[caller.body + 1].blocks[caller.block + 1].statements[caller.stmt]
        returned == operand(heap, top.locals, top_block.terminator.operand)
    IN  /\ Contents(heap', heap'[Designated(heap', frames', pending.place)])
             = Contents(returned.h, returned.v)
        /\ CallersKeep(Len(frames) - 1, pending.place.local, pending.place)

\* C23: a call starts at block 0 on body.locals fresh cells, the arguments
\* in the first and Unit in the others; no two frames have a local cell in
\* common; no step of a callee changes a local of a frame below it but
\* through a Deref, and a Return changes of the caller's locals only the
\* destination of the Call, which receives the value of the Return operand
C23_FreshFrames ==
    /\ [](/\ phase = "run" /\ Len(frames) > 1 =>
               \A i, j \in 1..Len(frames) :
                 i < j => Range(frames[i].locals) \cap Range(frames[j].locals) = {}
          /\ \A c \in FrameCases :
               hir = FrameProgram(c) =>
                 /\ phase \notin {"lower_panic", "panic", "abort"}
                 /\ IsPrefix(out, c.prints)
                 /\ phase = "done" => out = c.prints)
    /\ [][phase = "run" /\ phase' = "run" =>
            IF Len(frames') > Len(frames) THEN FrameIsFresh
            ELSE IF Len(frames') < Len(frames) THEN ReturnIsStored
            ELSE Len(frames) > 1 /\ top.stmt <= Len(top_block.statements)
                   => CallersKeep(Len(frames) - 1, 0 - 1, statement.place)]_vars

\* f is running in three frames at once, called by main
C23_Witness ==
    /\ phase = "run"
    /\ Len(frames) = 4
    /\ frames[2].body = frames[4].body
    /\ \E c \in FrameCases : hir = FrameProgram(c)

TyVids == 0..(Len(tcx.subs) - 1)

\* following subs from the variable ends: at a type that is no variable or at
\* an unbound variable
ChainEnds(subs, var) == infer_shallow(subs, TInfer(var), Len(subs) + 1) # StackOverflow

\* C24: after any calls of new_vid, try_eq and try_subtype no chain of
\* variables in subs leads back into itself, and infer_shallow of any type
\* returns a type that is no variable or panics on an unbound variable and
\* never recurses without end
C24_NoInferCycle ==
    phase = "ty" =>
      /\ \A var \in TyVids : ChainEnds(tcx.subs, var)
      /\ \A ty \in Tys(Len(tcx.subs)) :
           \/ infer_shallow(tcx.subs, ty, MaxStack) = TyPanic
           \/ /\ infer_shallow(tcx.subs, ty, MaxStack).r = "ty"
              /\ infer_shallow(tcx.subs, ty, MaxStack).ty.k # "Infer"
      /\ tcx.call.fn = "infer_shallow" => tcx.returned # StackOverflow

RECURSIVE VarsIn(_)
VarsIn(ty) ==
    CASE ty.k = "Infer" -> {ty.var}
      [] ty.k = "Array" -> VarsIn(ty.of)
      [] ty.k = "Function" ->
           VarsIn(ty.ret) \union UNION {VarsIn(ty.params[i]) : i \in 1..Len(ty.params)}
      [] OTHER -> {}

\* the variables a bound variable's type is built from, and theirs
RECURSIVE Within(_, _, _)
Within(subs, seen, n) ==
    IF n = 0 THEN seen
    ELSE Within(subs,
                seen \union UNION {IF subs[v + 1] = TInfer(v) THEN {}
                                   ELSE VarsIn(subs[v + 1]) : v \in seen},
                n - 1)

\* the variable is bound to a type built from itself
BuiltFromItself(subs, var) ==
    /\ subs[var + 1] # TInfer(var)
    /\ var \in Within(subs, VarsIn(subs[var + 1]), Len(subs))

\* what holds instead: a call recurses without end only on a table in which
\* a variable is bound to a type built from itself
OverflowOnlyOnCycle ==
    [][tcx'.returned = StackOverflow
         => \E var \in TyVids : BuiltFromItself(tcx.subs, var)]_vars

Concrete(ty) == VarsIn(ty) = {}

RECURSIVE Subterms(_)
Subterms(ty) ==
    {ty} \union
    CASE ty.k = "Array" -> Subterms(ty.of)
      [] ty.k = "Function" ->
           Subterms(ty.ret) \union UNION {Subterms(ty.params[i]) : i \in 1..Len(ty.params)}
      [] OTHER -> {}

\* try_eq(lhs, rhs) returned Ok and both resolve: they resolve to one type
UnifiedAfter(lhs, rhs) ==
    /\ tcx'.returned = TyOk
    /\ infer_deep(tcx'.subs, lhs, MaxStack).r = "ty"
    /\ infer_deep(tcx'.subs, rhs, MaxStack).r = "ty"
    => infer_deep(tcx'.subs, lhs, MaxStack) = infer_deep(tcx'.subs, rhs, MaxStack)

\* var is bound to a concrete type and other is a different concrete type
BoundApart(var, other) ==
    /\ var.k = "Infer"
    /\ infer_shallow(tcx.subs, var, MaxStack).r = "ty"
    /\ Concrete(infer_shallow(tcx.subs, var, MaxStack).ty)
    /\ Concrete(other)
    /\ infer_shallow(tcx.subs, var, MaxStack).ty # other

\* try_eq returned Err with a part of the binding and a part of the other
\* type that differ, and no binding has changed
Mismatch(bound, other, is_left) ==
    /\ tcx'.returned.r = "Err"
    /\ tcx'.returned.tys[1] # tcx'.returned.tys[2]
    /\ tcx'.returned.tys[IF is_left THEN 1 ELSE 2] \in Subterms(bound)
    /\ tcx'.returned.tys[IF is_left THEN 2 ELSE 1] \in Subterms(other)
    /\ tcx'.subs = tcx.subs

StableAfter(lhs, rhs) ==
    /\ BoundApart(lhs, rhs) => Mismatch(infer_shallow(tcx.subs, lhs, MaxStack).ty, rhs, TRUE)
    /\ BoundApart(rhs, lhs)
         => Mismatch(infer_shallow(tcx.subs, rhs, MaxStack).ty, lhs, FALSE)

\* C25: whenever try_eq(l, r) returns Ok and both sides resolve,
\* infer_deep(l) = infer_deep(r) afterwards; try_eq of a variable bound to a
\* concrete type with a different concrete type returns Err with the two
\* types that differ and leaves the binding as it was
C25_SoundAndStable ==
    [][tcx'.call.fn = "try_eq"
         => /\ UnifiedAfter(tcx'.call.args[1], tcx'.call.args[2])
            /\ StableAfter(tcx'.call.args[1], tcx'.call.args[2])]_vars

\* what holds instead: the two sides resolve to one type unless one of
\* them resolves to a function type, inside which infer_deep resolves nothing
SoundUnlessFunction ==
    [][(/\ tcx'.call.fn = "try_eq"
        /\ infer_deep(tcx'.subs, tcx'.call.args[1], MaxStack).r = "ty"
        /\ infer_deep(tcx'.subs, tcx'.call.args[1], MaxStack).ty.k # "Function")
         => UnifiedAfter(tcx'.call.args[1], tcx'.call.args[2])]_vars

StableOnly ==
    [][tcx'.call.fn = "try_eq"
         => StableAfter(tcx'.call.args[1], tcx'.call.args[2])]_vars

\* the integers of a half-open range, and those from lhs to rhs inclusive
Members(range) == {i \in I64Min..I64Max : range.start <= i /\ i < range.end}
Through(lhs, rhs) == {i \in I64Min..I64Max : lhs <= i /\ i <= rhs}

Evaluated == phase = "eval" /\ eval.value # None

IsRangeTo(end) == eval.value = Some(VRange(eval.lhs, end))

\* C26 as stated: IntRange(a, b) is a..b and IntRangeInclusive(a, b) is
\* a..(b + 1), holding exactly the integers a..=b, for all i64 a and b,
\* b = i64::MAX included
C26_RangeInclusive ==
    Evaluated =>
      IF eval.op = "IntRange" THEN IsRangeTo(eval.rhs)
      ELSE /\ eval.value[1] # RangePanicked
           /\ eval.value[1].start = eval.lhs
           /\ Members(eval.value[1]) = Through(eval.lhs, eval.rhs)

\* C26, amended: IntRange(a, b) is a..b; IntRangeInclusive(a, b) is
\* a..(b + 1), holding exactly the integers a..=b, for every b below
\* i64::MAX; for b = i64::MAX the evaluation panics in a build with overflow
\* checks and is the empty range a..i64::MIN in a build without
C26_RangeBelowMax ==
    Evaluated =>
      IF eval.op = "IntRange" THEN IsRangeTo(eval.rhs)
      ELSE IF eval.rhs < I64Max
      THEN /\ IsRangeTo(eval.rhs + 1)
           /\ Members(eval.value[1]) = Through(eval.lhs, eval.rhs)
      ELSE IF eval.overflow_checks THEN eval.value = Some(RangePanicked)
      ELSE /\ IsRangeTo(I64Min)
           /\ Members(eval.value[1]) = {}

\* the inclusive range from i64::MIN to the integer before i64::MAX
C26_Witness ==
    /\ Evaluated
    /\ eval.op = "IntRangeInclusive"
    /\ eval.lhs = I64Min /\ eval.rhs = I64Max - 1
    /\ Cardinality(Members(eval.value[1])) = 2 ^ IntBits - 1

(***************************************************************************)
(* Let: the identifier is bound after its initializer is lowered           *)
(***************************************************************************)
\* the last of the first upto bindings that binds ident, 0 when none does
LastLet(lets, upto, ident) ==
    LET hits == {j \in 1..upto : lets[j].ident = ident}
    IN  IF hits = {} THEN 0 ELSE CHOOSE j \in hits : \A k \in hits : k <= j

\* the identifiers an initializer of a chain reads
IdentsIn(init) ==
    CASE init.kind = "Ident" -> {init.ident}
      [] init.kind = "Binary" -> {init.lhs.ident}
      [] OTHER -> {}

\* every initializer reads only identifiers bound before its Let
AllKnown(lets) ==
    \A i \in 1..Len(lets) : \A z \in IdentsIn(lets[i].expr) : LastLet(lets, i - 1, z) # 0

\* what ident holds after the first upto bindings, each initializer read
\* with the bindings before its own Let
RECURSIVE LetValue(_, _, _)
LetValue(lets, upto, ident) ==
    LET j == LastLet(lets, upto, ident)
        init == lets[j].expr
    IN  CASE init.kind = "Ident" -> LetValue(lets, j - 1, init.ident)
          [] init.kind = "Binary" -> LetValue(lets, j - 1, init.lhs.ident) + init.rhs.lit.v
          [] OTHER -> init.lit.v

\* the locals a statement reads
ReadBy(stmt) ==
    UNION {LocalsOf(place) :
             place \in UNION {OperandPlaces(op) : op \in RValueOperands(stmt.rvalue)}}

\* the first LetLen expressions of the last function, if it has as many
LeadingLets ==
    IF Len(hir[Len(hir)].body) >= LetLen THEN {SubSeq(hir[Len(hir)].body, 1, LetLen)} ELSE {}

\* C27: in `let x = e` the identifier is bound only after the initializer is
\* lowered: lowering a chain of bindings panics when an initializer reads an
\* identifier no earlier Let binds; otherwise the i-th Let is one assignment
\* to a local that no earlier statement writes or reads, its initializer
\* reads the local of the previous binding of each identifier in it (of x
\* itself too), and after the chain x names the local of its last binding
\* and prints the value so computed; a binding made in a block is read
\* inside the block and gone after it
C27_LetBindsAfterInit ==
    /\ \A lets \in IF phase # "hir" THEN LeadingLets ELSE {} :
         (lets \in LetChains /\ hir = LetProgram(lets)) =>
           IF ~AllKnown(lets) THEN phase = "lower_panic"
           ELSE LET stmts == MainStmts(mir)
                    n == Len(lets)
                IN  /\ phase \notin {"lower_panic", "panic", "abort"}
                    /\ Len(stmts) > n
                    /\ \A i \in 1..n :
                         /\ stmts[i].place = PlaceLocal(i - 1)
                         /\ \A k \in 1..(i - 1) :
                              (i - 1) \notin LocalsOf(stmts[k].place) \union ReadBy(stmts[k])
                         /\ ReadBy(stmts[i])
                              = {LastLet(lets, i - 1, z) - 1 : z \in IdentsIn(lets[i].expr)}
                    /\ ReadBy(stmts[n + 1]) = {LastLet(lets, n, "x") - 1}
                    /\ IsPrefix(out, <<<<Digits[LetValue(lets, n, "x") + 1]>>>>)
                    /\ phase = "done" => out = <<<<Digits[LetValue(lets, n, "x") + 1]>>>>
    /\ \A c \in LetBlockCases :
         hir = Main(c.body) =>
           /\ phase \notin {"lower_panic", "panic", "abort"}
           /\ IsPrefix(out, c.prints)
           /\ phase = "done" => out = c.prints

\* a chain that binds x to x + 1 twice has run to its end: the second
\* x + 1 read the local of the first, and 7 was printed
C27_Witness ==
    /\ phase = "done"
    /\ hir = LetProgram(<< HLet("x", HInt(5)),
                          HLet("x", Sum(HIdent(TInt, "x"), HInt(1))),
                          HLet("x", Sum(HIdent(TInt, "x"), HInt(1))) >>)
    /\ out = <<<<"7">>>>
    /\ MainStmts(mir)[3].rvalue.lhs = OLocal(1)

(***************************************************************************)
(* The shape of the finished bodies                                        *)
(***************************************************************************)
\* the top-level declarations of functions that are not intrinsics and
\* whose name is the name of one body only
Declared ==
    {d \in Range(hir) :
       /\ d.kind = "FnDecl"
       /\ ~try_instrinsic(d.ident)
       /\ Cardinality({b \in Bodies : mir.bodies[b].name = Some(d.ident)}) = 1}

\* the final expression names a parameter that no Let of the body binds again
FinalParam(d) ==
    /\ LastOf(d.body).kind = "Ident"
    /\ \E i \in 1..Len(d.params) : d.params[i].ident = LastOf(d.body).ident
    /\ \A i \in 1..Len(d.body) :
         d.body[i].kind = "Let" => d.body[i].ident # LastOf(d.body).ident

\* the final expression is computed by one r-value into a new local
FinalComputed(d) ==
    /\ LastOf(d.body).ty \notin {TUnit, TNever}
    /\ \/ LastOf(d.body).kind = "FnCall"
       \/ LastOf(d.body).kind = "Binary" /\ LastOf(d.body).op \notin {"And", "Or"}

\* the Return of the last block carries the operand of the final expression
ReturnsFinal(d, body) ==
    LET last == LastOf(body.blocks)
        returned == last.terminator.operand
    IN  IF d.body = <<>> THEN returned = OUNIT
        ELSE LET final == LastOf(d.body)
             IN  /\ (final.kind = "Literal" /\ final.lit.l = "Int")
                      => returned = OConstant(CInt(final.lit.v))
                 /\ (final.kind \in {"Let", "Assignment", "Return", "Abort", "Break",
                                     "Loop", "PrintStr", "FnDecl"} \/ final = HUnit)
                      => returned = OUNIT
                 /\ (final.kind = "FnCall" /\ final.ty = TUnit) => returned = OUNIT
                 /\ FinalParam(d)
                      => \E i \in 1..Len(d.params) :
                            /\ d.params[i].ident = final.ident
                            /\ returned = OLocal(i - 1)
                 /\ FinalComputed(d)
                      => /\ last.statements # <<>>
                         /\ returned = OPlace(LastOf(last.statements).place)
                         /\ LastOf(last.statements).place.projections = <<>>
                         /\ LastOf(last.statements).rvalue.r
                              = IF final.kind = "FnCall" /\ ~try_instrinsic(final.function.ident)
                                THEN "Call"
                                ELSE LastOf(last.statements).rvalue.r

\* the stack of body frames after the first k top-level expressions
FramesAfter(k) == lower_each(LoweringNew, SubSeq(hir, 1, k), 1, OUNIT).s

\* C28: when lower() has returned the root body has no blocks; every body of
\* a function that is not an intrinsic, and every struct formatter, has a
\* block, and its last block ends in Return; the Return of a function body
\* carries the operand of the final expression of the body (Unit for an
\* empty body, the constant for a literal, the parameter's local for a
\* parameter, the local just assigned for a call or an operator, Unit for a
\* statement); and after each top-level expression the stack of body frames
\* is the root frame alone
C28_FinishedBodies ==
    Lowered =>
      /\ mir.bodies[1].blocks = <<>>
      /\ mir.bodies[1].name = None
      /\ \A b \in Bodies \ {1} :
           (~mir.bodies[b].auto \/ b \in Formatters) =>
             /\ mir.bodies[b].blocks # <<>>
             /\ LastOf(mir.bodies[b].blocks).terminator.t = "Return"
      /\ \A d \in Declared : ReturnsFinal(d, BodyNamed(mir, d.ident))
      /\ \A c \in ShapeCases :
           hir = ShapeProgram(c) =>
             LastOf(BodyNamed(mir, "g").blocks).terminator = Return(c.returns)
      /\ phase = "mir" =>
           \A k \in 0..Len(hir) :
               /\ Len(FramesAfter(k).bodies) = 1
               /\ FramesAfter(k).bodies[1].body = 0
               /\ FramesAfter(k).bodies[1].stmts = <<>>

\* the program whose function g has an empty body has been lowered, with
\* the formatter of the struct its main prints: g is one block, Return(Unit)
C28_Witness ==
    /\ phase = "mir"
    /\ Formatters # {}
    /\ \E c \in ShapeCases :
         /\ hir = ShapeProgram(c)
         /\ c.body = <<>>
         /\ BodyNamed(mir, "g").blocks = <<Block(<<>>, Return(OUNIT))>>
         /\ \E d \in Declared : d.ident = "g"

(***************************************************************************)
(* The effect of one assignment of the interpreter                         *)
(***************************************************************************)
\* the step runs an Assign of Use(v) of the top frame to its end
UseHasRun == at_statement /\ statement.rvalue.r = "Use" /\ phase' = "run"

\* the value of the operand of the statement, on the heap it is read from
Used == operand(heap, top.locals, statement.rvalue.operand)

\* reading Operand::Place(place) after the step yields the value assigned
ReadsAssigned(place) ==
    LET read == operand(heap', top.locals, OPlace(place))
    IN  read.ok /\ Contents(read.h, read.v) = Contents(Used.h, Used.v)

\* statement j of the block being run stored Operand::Ref(q) in the local r,
\* and no statement since assigned r, wrote through a reference or called
HoldsRefOf(j, r, q) ==
    /\ top_block.statements[j] = Assign(PlaceLocal(r), Use(ORef(q)))
    /\ \A k \in (j + 1)..(top.stmt - 1) :
         /\ top_block.statements[k].place # PlaceLocal(r)
         /\ ~HasDeref(top_block.statements[k].place)
         /\ top_block.statements[k].rvalue.r # "Call"

\* the references of the block that the statement writes through or under
Aliasing ==
    {b \in {[r |-> top_block.statements[j].place.local,
             q |-> top_block.statements[j].rvalue.operand.place] :
               j \in {i \in 1..(top.stmt - 1) : IsRefStore(top_block.statements[i])}} :
       \E j \in 1..(top.stmt - 1) : HoldsRefOf(j, b.r, b.q)}

\* q resolves to the cell the reference in r is to
StillRefers(r, q) ==
    /\ heap[top.locals[r + 1]].k = "Ref"
    /\ load_place(heap, top.locals, q) = Some(heap[top.locals[r + 1]].cell)

\* the assigned place reads as the value assigned, and no cell but the one
\* the place resolves to has changed
WrittenAndFramed ==
    /\ ReadsAssigned(statement.place)
    /\ \A cell \in 1..Len(heap) :
         Some(cell) # load_place(Used.h, top.locals, statement.place)
           => heap'[cell] = heap[cell]

\* an assignment through *r is read at q, one to q is read through *r
WritesThrough(b) ==
    /\ statement.place = Place(b.r, <<Deref>>) => ReadsAssigned(b.q)
    /\ statement.place = b.q => ReadsAssigned(Place(b.r, <<Deref>>))

\* C29: after Assign{p, Use(v)} reading Operand::Place(p) yields v and every
\* cell other than the one p resolves to has the value it had; and if a
\* local r holds the Value::Ref obtained from Operand::Ref(q), an assignment
\* through Place{r, [Deref]} is read at q and an assignment to q is read
\* through r
C29_WriteThrough ==
    [][UseHasRun => WrittenAndFramed /\ \A b \in Aliasing : WritesThrough(b)]_vars

\* the same, of a q that is a local or still resolves to the cell the
\* reference is to
C29_WriteThroughSameCell ==
    [][UseHasRun =>
         /\ WrittenAndFramed
         /\ \A b \in Aliasing :
              (b.q.projections = <<>> \/ StillRefers(b.r, b.q)) => WritesThrough(b)]_vars

\* a reference to a field of s, taken before, has been written through and
\* s.1 reads 5; then s.1 has been assigned and the reference reads 6
C29_Witness ==
    /\ phase = "done"
    /\ \E c \in AliasCases :
         /\ hir = StructMain(c.body)
         /\ c.prints = <<<<"5">>, <<"6">>, <<"1">>>>
         /\ \E stmt \in Range(MainStmts(mir)) : stmt.place.projections = <<Deref>>
         /\ \E stmt \in Range(MainStmts(mir)) : stmt = Assign(PlaceLocal(1), Use(ORef(Place(0, <<Field(1)>>))))
    /\ out = <<<<"5">>, <<"6">>, <<"1">>>>

(***************************************************************************)
(* Lowering of nested l-values                                             *)
(***************************************************************************)
IsLiteralIndex(step) == step.p = "Index" /\ step.by.kind = "Literal"

\* the steps after the n-th that index by a literal: their index locals are
\* made before that of the n-th
LiteralsAfter(chain, n) == Cardinality({m \in (n + 1)..Len(chain) : IsLiteralIndex(chain[m])})

\* the projections of the chain, innermost first: a is local 0, i local 1,
\* the local of a literal index one of the new locals from 2 on
Projected(chain) ==
    [n \in 1..Len(chain) |->
       CASE chain[n].p = "Index" ->
              Index(IF IsLiteralIndex(chain[n]) THEN 2 + LiteralsAfter(chain, n) ELSE 1)
         [] OTHER -> chain[n]]

\* the steps an l-value is built by, innermost first
RECURSIVE StepsOf(_)
StepsOf(e) ==
    CASE e.kind = "Field" -> Append(StepsOf(e.expr), Field(e.field))
      [] e.kind = "Unary" -> Append(StepsOf(e.expr), Deref)
      [] e.kind = "Index" -> Append(StepsOf(e.expr), IndexBy(e.index))
      [] OTHER -> <<>>

\* the steps of the l-value that the last function before main starts by
\* assigning to, if it does
AssignedChain ==
    LET f == hir[Len(hir) - 1]
    IN  IF f.kind = "FnDecl" /\ f.body # <<>> /\ f.body[1].kind = "Assignment"
        THEN {StepsOf(f.body[1].lhs)} ELSE {}

\* C30: an l-value built from an identifier by a chain of field, index and
\* deref steps is lowered to the place of the identifier's local with the
\* projections of the steps, innermost first; the statements before the
\* assignment set the index locals of the literal indices and nothing else,
\* so no struct or array on the way is copied; and an assignment to a nested
\* l-value of a variable is read back from the variable
C30_NestedPlace ==
    /\ \A chain \in IF phase # "hir" THEN AssignedChain ELSE {} :
         (chain \in PlaceChains /\ hir = PlaceProgram(chain)) =>
           /\ Lowered
           /\ LET stmts == BodyNamed(mir, "f").blocks[1].statements
                  literals == LiteralsAfter(chain, 0)
              IN  /\ Len(stmts) = literals + 1
                  /\ \A k \in 1..literals :
                       stmts[k] = Assign(PlaceLocal(1 + k), Use(OConstant(CInt(1))))
                  /\ stmts[literals + 1]
                       = Assign(Place(0, Projected(chain)), Use(OConstant(CInt(9))))
                  /\ BodyNamed(mir, "f").locals = 2 + literals
    /\ \A c \in NestedCases :
         hir = StructMain(c.body) =>
           /\ phase \notin {"lower_panic", "panic", "abort"}
           /\ IsPrefix(out, c.prints)
           /\ phase = "done" => out = c.prints

\* (*a).1[i].0 has been lowered to a with Deref, Field(1), Index(i), Field(0)
C30_Witness ==
    /\ phase = "mir"
    /\ hir = PlaceProgram(<<Deref, Field(1), IndexBy(HIdent(TInt, "i")), Field(0)>>)
    /\ BodyNamed(mir, "f").blocks[1].statements
         = <<Assign(Place(0, <<Deref, Field(1), Index(1), Field(0)>>), Use(OConstant(CInt(9))))>>

=============================================================================
